---- MODULE Spec2Model ----
(***************************************************************************)
(* Multi-source event date and identity resolution (EDIProject).           *)
(*                                                                         *)
(* Two programs share the events collection:                               *)
(*   - scraper/DateUpdate.py   update_event_dates: six scraped source      *)
(*     dictionaries are consulted for every tracked event and the event's  *)
(*     dates are written back (specification SpecDU);                      *)
(*   - scraper/scraper.py      scrape_events: a pool of workers extracts   *)
(*     events from URLs and upserts them with insert_events                *)
(*     (specification SpecScr).                                            *)
(*                                                                         *)
(* Strings are sequences of one-character strings, so that lower-casing,   *)
(* diacritic stripping and the regular-expression substitutions are        *)
(* computed and not assumed.  A calendar date y-m-d is the integer         *)
(* y*10000 + m*100 + d, which orders like the date; Python's None is the   *)
(* value None below.                                                       *)
(***************************************************************************)
EXTENDS Integers, Sequences, FiniteSets, TLC

(***************************************************************************)
(* Strings                                                                 *)
(***************************************************************************)
UpperChars == <<"A","B","C","D","E","F","G","H","I","J","K","L","M",
                "N","O","P","Q","R","S","T","U","V","W","X","Y","Z">>

LowerChars == <<"a","b","c","d","e","f","g","h","i","j","k","l","m",
                "n","o","p","q","r","s","t","u","v","w","x","y","z">>

Digits == {"0","1","2","3","4","5","6","7","8","9"}

\* Letters carrying a diacritic, written as the base letter followed by the
\* mark ("-" macron, "'" acute, ":" diaeresis, "." dot below, "^'" circumflex
\* and acute): <<upper, lower, base letter of the lower form>>.
Accented ==
    << <<"A-", "a-", "a">>, <<"I-", "i-", "i">>, <<"U-", "u-", "u">>,
       <<"A'", "a'", "a">>, <<"E'", "e'", "e">>, <<"E:", "e:", "e">>,
       <<"E^'", "e^'", "e">>, <<"D.", "d.", "d">>, <<"H.", "h.", "h">>,
       <<"T.", "t.", "t">> >>

Range(s) == {s[i] : i \in DOMAIN s}

\* str.lower() on one character
lower_char(c) ==
    IF \E i \in DOMAIN UpperChars : UpperChars[i] = c
    THEN LowerChars[CHOOSE i \in DOMAIN UpperChars : UpperChars[i] = c]
    ELSE IF \E i \in DOMAIN Accented : Accented[i][1] = c
    THEN Accented[CHOOSE i \in DOMAIN Accented : Accented[i][1] = c][2]
    ELSE c

\* str.lower()
lower(s) == [i \in DOMAIN s |-> lower_char(s[i])]

\* unicodedata.normalize('NFKD', c) with the combining marks dropped
nfkd_base_char(c) ==
    IF \E i \in DOMAIN Accented : Accented[i][2] = c
    THEN Accented[CHOOSE i \in DOMAIN Accented : Accented[i][2] = c][3]
    ELSE IF \E i \in DOMAIN Accented : Accented[i][1] = c
    THEN UpperChars[CHOOSE k \in DOMAIN LowerChars :
            LowerChars[k] = Accented[CHOOSE i \in DOMAIN Accented : Accented[i][1] = c][3]]
    ELSE c

\* the regular-expression classes \w and \s
\* ("okina" is the modifier letter turned comma that opens "Id al-Fitr", a letter)
IsWordChar(c) ==
    c \in Range(UpperChars) \cup Range(LowerChars) \cup Digits \cup {"_", "okina"}
         \cup {Accented[i][1] : i \in DOMAIN Accented}
         \cup {Accented[i][2] : i \in DOMAIN Accented}

IsSpaceChar(c) == c = " "

RECURSIVE lstrip(_)
lstrip(s) == IF s # <<>> /\ IsSpaceChar(Head(s)) THEN lstrip(Tail(s)) ELSE s

RECURSIVE rstrip(_)
rstrip(s) ==
    IF s # <<>> /\ IsSpaceChar(s[Len(s)]) THEN rstrip(SubSeq(s, 1, Len(s) - 1)) ELSE s

\* str.strip()
strip(s) == rstrip(lstrip(s))

\* DateUpdate.normalize_event_name: lower-case, drop the diacritics, delete
\* every character that is neither a word character nor white space, strip.
normalize_event_name(name) ==
    LET lowered == lower(name)
        based   == [i \in DOMAIN lowered |-> nfkd_base_char(lowered[i])]
    IN  strip(SelectSeq(based, LAMBDA c : IsWordChar(c) \/ IsSpaceChar(c)))

\* First index j > i with s[j] = close, or 0: where the non-greedy group
\* opened at i ends.
ClosingAt(s, i, close) ==
    IF \E j \in (i + 1)..Len(s) : s[j] = close
    THEN CHOOSE j \in (i + 1)..Len(s) :
            s[j] = close /\ \A k \in (i + 1)..(j - 1) : s[k] # close
    ELSE 0

\* re.sub(r'\(.*?\)|\[.*?\]|\*+', '', text), scanning from index i
RECURSIVE SubParens(_, _)
SubParens(s, i) ==
    IF i > Len(s) THEN <<>>
    ELSE IF s[i] = "(" /\ ClosingAt(s, i, ")") # 0
         THEN SubParens(s, ClosingAt(s, i, ")") + 1)
    ELSE IF s[i] = "[" /\ ClosingAt(s, i, "]") # 0
         THEN SubParens(s, ClosingAt(s, i, "]") + 1)
    ELSE IF s[i] = "*" THEN SubParens(s, i + 1)
    ELSE <<s[i]>> \o SubParens(s, i + 1)

\* DateUpdate.strip_parentheses
strip_parentheses(text) == strip(SubParens(text, 1))

(***************************************************************************)
(* Substring test and fuzz.ratio                                           *)
(***************************************************************************)
\* a in b
IsSubstring(a, b) ==
    \E i \in 0..(Len(b) - Len(a)) : SubSeq(b, i + 1, i + Len(a)) = a

\* F at the value of v, G at the values of v and w: the value is computed
\* once however often F or G uses it
At(F(_), v) == CHOOSE r \in {F(x) : x \in {v}} : TRUE

At2(G(_, _), v, w) == CHOOSE r \in {G(x, y) : x \in {v}, y \in {w}} : TRUE

\* difflib.SequenceMatcher.find_longest_match without junk: <<i, j, k>> with
\* a[i..i+k-1] = b[j..j+k-1], k the largest there is, then i the smallest,
\* then j the smallest; k = 0 when a and b share no character
find_longest_match(a, b) ==
    LET Longest(blocks) ==
            IF blocks = {} THEN <<1, 1, 0>>
            ELSE CHOOSE m \in blocks : \A n \in blocks :
                    \/ n[3] < m[3]
                    \/ n[3] = m[3] /\ m[1] < n[1]
                    \/ n[3] = m[3] /\ m[1] = n[1] /\ m[2] <= n[2]
    IN  At(Longest, {<<i, j, k>> \in (1..Len(a)) \X (1..Len(b)) \X (1..Len(a)) :
                        /\ i + k - 1 <= Len(a)
                        /\ j + k - 1 <= Len(b)
                        /\ \A d \in 0..(k - 1) : a[i + d] = b[j + d]})

\* difflib.SequenceMatcher.get_matching_blocks: the longest block and,
\* recursively, the blocks of the pieces to its left and to its right.  The
\* value is the number of matched characters.
RECURSIVE MatchedChars(_, _)
MatchedChars(a, b) ==
    LET Around(m) ==
            IF m[3] = 0 THEN 0
            ELSE m[3]
                 + At2(MatchedChars, SubSeq(a, 1, m[1] - 1), SubSeq(b, 1, m[2] - 1))
                 + At2(MatchedChars, SubSeq(a, m[1] + m[3], Len(a)),
                                     SubSeq(b, m[2] + m[3], Len(b)))
    IN  At(Around, find_longest_match(a, b))

\* int(round(x)) for x = num / den, halves going to the even integer
RoundHalfEven(num, den) ==
    LET q == num \div den
        r == num % den
    IN  IF 2 * r > den THEN q + 1
        ELSE IF 2 * r < den THEN q
        ELSE IF q % 2 = 0 THEN q ELSE q + 1

\* fuzzywuzzy.fuzz.ratio with the pure-Python SequenceMatcher:
\* 0 for an empty string, else round(100 * 2M / (len(s1) + len(s2)))
fuzz_ratio(s1, s2) ==
    IF s1 = <<>> \/ s2 = <<>> THEN 0
    ELSE RoundHalfEven(200 * At2(MatchedChars, s1, s2), Len(s1) + Len(s2))

\* The fuzzy-match threshold of every comparison: ratio > 85
FUZZ_THRESHOLD == 85

(***************************************************************************)
(* Dates                                                                   *)
(***************************************************************************)
\* Python's None (falsy, equal only to itself)
None == 0

\* current_year / year = 2025 in every scraper
current_year == 2025

MkDate(y, m, d) == y * 10000 + m * 100 + d

YearOf(dt) == dt \div 10000

MonthOf(dt) == (dt \div 100) % 100

DayOf(dt) == dt % 100

IsLeap(y) == (y % 4 = 0 /\ y % 100 # 0) \/ y % 400 = 0

DaysInMonth(y, m) ==
    IF m \in {4, 6, 9, 11} THEN 30
    ELSE IF m = 2 THEN (IF IsLeap(y) THEN 29 ELSE 28)
    ELSE 31

\* datetime.date(y, m, d) raises ValueError unless this holds
ValidDate(y, m, d) == m \in 1..12 /\ d >= 1 /\ d <= DaysInMonth(y, m)

(***************************************************************************)
(* Sources, in the order update_event_dates consults them                  *)
(***************************************************************************)
YORK_URL == "https://registrar.yorku.ca/enrol/dates/religious-accommodation-resource-2024-2025"

CANADA_URL == "https://www.canada.ca/en/canadian-heritage/services/important-commemorative-days.html"

ONTARIO_URL == "https://www.ontario.ca/page/ontarios-celebrations-and-commemorations"

XAVIER_URL == "https://www.xavier.edu/jesuitresource/online-resources/calendar-religious-holidays-and-observances/index"

INTERFAITH_URL == "https://www.interfaith-calendar.org/"

INTERFAITH_OBSERVER_URL == "https://www.theinterfaithobserver.org/religious-calendar"

CALENDARIFIC_SOURCE == "https://calendarific.com/api/v2"

APININJAS_SOURCE == "https://api.api-ninjas.com/v1/holidays"

SourceUrls == <<YORK_URL, CANADA_URL, ONTARIO_URL, XAVIER_URL, INTERFAITH_URL,
                INTERFAITH_OBSERVER_URL>>

NumSources == Len(SourceUrls)

(***************************************************************************)
(* Source dictionaries: functions from a key (a string) to <<start, end>>  *)
(***************************************************************************)
EmptyDict == [k \in {} |-> <<None, None>>]

\* accommodations[k] = val for every k of keys, in one step
Store(dict, keys, val) ==
    [k \in DOMAIN dict \cup keys |-> IF k \in keys THEN val ELSE dict[k]]

\* re.sub(r'\s*\([^)]*\)', '', text), scanning from index i: a parenthesised
\* group goes together with the white space before it.
RECURSIVE SubParenGroups(_, _)
SubParenGroups(s, i) ==
    IF i > Len(s) THEN <<>>
    ELSE LET RECURSIVE SkipSpaces(_)
             SkipSpaces(j) == IF j <= Len(s) /\ IsSpaceChar(s[j]) THEN SkipSpaces(j + 1) ELSE j
             open == SkipSpaces(i)
         IN  IF open <= Len(s) /\ s[open] = "(" /\ ClosingAt(s, open, ")") # 0
             THEN SubParenGroups(s, ClosingAt(s, open, ")") + 1)
             ELSE <<s[i]>> \o SubParenGroups(s, i + 1)

RemoveParenGroups(text) == strip(SubParenGroups(text, 1))

\* re.split on the delimiters "/", "," and "&"; pieces are stripped and the
\* empty ones dropped (split_event_names of scrape_york_accommodations)
RECURSIVE SplitOn(_, _, _)
SplitOn(s, delims, cur) ==
    IF s = <<>> THEN <<cur>>
    ELSE IF Head(s) \in delims THEN <<cur>> \o SplitOn(Tail(s), delims, <<>>)
    ELSE SplitOn(Tail(s), delims, Append(cur, Head(s)))

split_event_names(exact_name) ==
    LET pieces   == SplitOn(exact_name, {"/", ",", "&"}, <<>>)
        stripped == [i \in DOMAIN pieces |-> strip(pieces[i])]
    IN  SelectSeq(stripped, LAMBDA n : n # <<>>)

(***************************************************************************)
(* The scrapers.  A fetched page is [ok, rows]: ok = FALSE is a failed     *)
(* fetch (exception, timeout, status other than 200), rows are the records *)
(* the HTML navigation yields, in document order.                          *)
(***************************************************************************)

\* One row of the York table: the name cell and the result of
\* parse_date_range on the date cell.  Rows without both dates are skipped;
\* the others are stored under the exact name, its normalisation and the
\* same two keys of every individual name.
YorkRow(dict, row) ==
    IF row.start_dt = None \/ row.end_dt = None THEN dict
    ELSE LET exact_name == RemoveParenGroups(row.raw_name)
             individual == split_event_names(exact_name)
             keys == {exact_name, normalize_event_name(exact_name)}
                     \cup {individual[i] : i \in DOMAIN individual}
                     \cup {normalize_event_name(individual[i]) : i \in DOMAIN individual}
         IN  Store(dict, keys, <<row.start_dt, row.end_dt>>)

\* One list item of Canada.ca or Ontario.ca, after the date of the item has
\* been worked out: stored under the exact name and its normalisation when
\* both dates and the name are there.
CommemorativeRow(dict, row) ==
    IF row.start_dt = None \/ row.end_dt = None \/ row.exact_name = <<>> THEN dict
    ELSE Store(dict, {row.exact_name, normalize_event_name(row.exact_name)},
               <<row.start_dt, row.end_dt>>)

\* One event row of the Xavier table under the month header current_month.
\*   kind "cross": date text "Mon d-e", start in the named month, end in
\*                 the header's month;
\*   kind "same":  date text "d-e", both in the header's month;
\*   kind "single": one day.
\* date() raising ValueError skips the row.
XavierRow(dict, row) ==
    LET key == lower(row.event_name)
        cm  == row.current_month
    IN  IF row.kind = "cross"
        THEN IF ValidDate(current_year, row.start_month, row.start_day)
                /\ ValidDate(current_year, cm, row.end_day)
             THEN Store(dict, {key}, <<MkDate(current_year, row.start_month, row.start_day),
                                       MkDate(current_year, cm, row.end_day)>>)
             ELSE dict
        ELSE IF row.kind = "same"
        THEN IF ValidDate(current_year, cm, row.start_day)
                /\ ValidDate(current_year, cm, row.end_day)
             THEN Store(dict, {key}, <<MkDate(current_year, cm, row.start_day),
                                       MkDate(current_year, cm, row.end_day)>>)
             ELSE dict
        ELSE IF ValidDate(current_year, cm, row.start_day)
             THEN Store(dict, {key}, <<MkDate(current_year, cm, row.start_day),
                                       MkDate(current_year, cm, row.start_day)>>)
             ELSE dict

\* One event of a day cell of the Interfaith Calendar.  The month is
\* cell.get('data-month', 1): when the attribute is present it is a string
\* and date() raises TypeError, which skips the cell; otherwise January.
\* end_dt is the "until/through/ends" date of the popup, or None.
InterfaithRow(dict, row) ==
    IF row.has_data_month \/ ~ValidDate(current_year, 1, row.day) THEN dict
    ELSE LET event_date == MkDate(current_year, 1, row.day)
         IN  Store(dict, {lower(row.event_name)},
                   <<event_date, IF row.end_dt = None THEN event_date ELSE row.end_dt>>)

\* text.split(sep)[0]
BeforeFirst(s, sep) ==
    IF \E i \in DOMAIN s : s[i] = sep
    THEN SubSeq(s, 1, (CHOOSE i \in DOMAIN s : s[i] = sep /\ \A k \in 1..(i - 1) : s[k] # sep) - 1)
    ELSE s

\* One <li> of The Interfaith Observer under the h3 date event_date; the
\* end date is the one parsed from the <em> tag, or None.
ObserverRow(dict, row) ==
    LET event_name_cleaned ==
            lower(strip_parentheses(strip(BeforeFirst(row.event_name_raw, "--"))))
    IN  Store(dict, {event_name_cleaned}, <<row.event_date, row.end_date>>)

\* The dictionary a scraper returns for a page
RECURSIVE Fold(_, _, _)
Fold(src, rows, dict) ==
    IF rows = <<>> THEN dict
    ELSE Fold(src, Tail(rows),
              CASE src = 1 -> YorkRow(dict, Head(rows))
                [] src = 2 -> CommemorativeRow(dict, Head(rows))
                [] src = 3 -> CommemorativeRow(dict, Head(rows))
                [] src = 4 -> XavierRow(dict, Head(rows))
                [] src = 5 -> InterfaithRow(dict, Head(rows))
                [] OTHER   -> ObserverRow(dict, Head(rows)))

scrape(src, page) == IF page.ok THEN Fold(src, page.rows, EmptyDict) ELSE EmptyDict

(***************************************************************************)
(* Bounds of the model                                                     *)
(***************************************************************************)
\* runs of update_event_dates in one behaviour
MaxRuns == 2

\* database writes that the server rejects in one behaviour
MaxRejects == 1

\* sources whose page changes between two runs, in one behaviour
MaxWebChanges == 1

\* alternate names kept of each tracked event's list
MaxAlternates == 1

(***************************************************************************)
(* Names and pages of the model                                            *)
(***************************************************************************)
Diwali == <<"D","i","w","a","l","i">>

Deepavali == <<"D","e","e","p","a","v","a","l","i">>

FestivalOfLights == <<"F","e","s","t","i","v","a","l"," ","o","f"," ","L","i","g","h","t","s">>

\* "A-", "u-", "a-" are the letters with a macron
AshuraAccented == <<"A-","s","h","u-","r","a-">>

Ashura == <<"A","s","h","u","r","a">>

YawmAshura == <<"Y","a","w","m"," ","A","s","h","u","r","a">>

\* "--" is the en dash that separates the name from the religion
AshuraIslam == <<"A","s","h","u","r","a"," ","--"," ","I","s","l","a","m">>

FirstN(s, n) == SubSeq(s, 1, IF Len(s) < n THEN Len(s) ELSE n)

\* The tracked events as initialize_events seeds them: name, category,
\* image_url, alternate_names, last_updated and an empty source_urls; no
\* start_date and no end_date yet.  last_updated counts runs (0: seeding).
SeedEvent(name, category, image_url, alternates) ==
    [name |-> name, category |-> category, image_url |-> image_url,
     alternate_names |-> FirstN(alternates, MaxAlternates),
     start_date |-> None, end_date |-> None, last_updated |-> 0,
     source_urls |-> <<>>]

SeededEvents ==
    << SeedEvent(Diwali, "Hinduism", "/images/diwali.jpg",
                 <<Deepavali, FestivalOfLights>>),
       SeedEvent(AshuraAccented, "Islam", "/images/ashura.jpg",
                 <<Ashura, YawmAshura>>) >>

FailedPage == [ok |-> FALSE, rows |-> <<>>]

Page(rows) == [ok |-> TRUE, rows |-> rows]

\* What each source may serve.  The intervals differ from source to source,
\* so that the source an interval came from can be told.
Pages(src) ==
    CASE src = 1 ->
           {FailedPage,
            Page(<<[raw_name |-> Deepavali, start_dt |-> MkDate(2025, 10, 20),
                    end_dt |-> MkDate(2025, 10, 21)]>>),
            Page(<<[raw_name |-> Diwali, start_dt |-> MkDate(2025, 10, 20),
                    end_dt |-> MkDate(2025, 10, 21)]>>)}
      [] src = 2 ->
           {FailedPage,
            Page(<<[exact_name |-> Deepavali, start_dt |-> MkDate(2025, 10, 20),
                    end_dt |-> MkDate(2025, 10, 21)]>>)}
      [] src = 3 ->
           {FailedPage,
            Page(<<[exact_name |-> Ashura, start_dt |-> MkDate(2025, 7, 5),
                    end_dt |-> MkDate(2025, 7, 6)]>>)}
      [] src = 4 ->
           {FailedPage,
            Page(<<[event_name |-> Ashura, kind |-> "cross", current_month |-> 1,
                    start_month |-> 12, start_day |-> 31, end_day |-> 1]>>)}
      [] src = 5 ->
           {FailedPage,
            Page(<<[event_name |-> Diwali, day |-> 14, has_data_month |-> FALSE,
                    end_dt |-> None]>>)}
      [] OTHER ->
           {FailedPage,
            Page(<<[event_name_raw |-> AshuraIslam, event_date |-> MkDate(2025, 7, 4),
                    end_date |-> None]>>)}

\* A fallback API answers one request per country: [ok, holidays], each
\* holiday a name and its date (None: the date field is missing or malformed).
ApiDown == <<[ok |-> FALSE, holidays |-> <<>>], [ok |-> FALSE, holidays |-> <<>>]>>

CalendarificAnswers ==
    {ApiDown,
     <<[ok |-> TRUE, holidays |-> <<[name |-> Diwali, date |-> MkDate(2025, 10, 22)]>>],
       [ok |-> TRUE, holidays |-> <<>>]>>}

ApiNinjasAnswers ==
    {ApiDown,
     <<[ok |-> TRUE, holidays |-> <<>>],
       [ok |-> TRUE, holidays |-> <<[name |-> YawmAshura, date |-> MkDate(2025, 7, 7)]>>]>>}

\* The web as one run sees it
Webs ==
    [pages : {<<p1, p2, p3, p4, p5, p6>> :
                 p1 \in Pages(1), p2 \in Pages(2), p3 \in Pages(3),
                 p4 \in Pages(4), p5 \in Pages(5), p6 \in Pages(6)},
     calendarific : CalendarificAnswers,
     apininjas : ApiNinjasAnswers]

(***************************************************************************)
(* State                                                                   *)
(***************************************************************************)
VARIABLES
    events,             \* the events collection: _id -> document
    web,                \* what the sources and the fallback APIs serve
    dicts,              \* york_dict .. interfaith_observer_dict of the run
    pc,                 \* where update_event_dates is
    src_i,              \* the source scraped next
    ev_i,               \* the index of the event processed next
    stats,              \* total_events, updated_from_scraping, parse_failed, not_found
    not_found_events,   \* _ids appended to not_found_events
    remaining,          \* remaining_events handed to update_remaining_events
    api_i,              \* the index in remaining of the event tried next
    results,            \* calendarific_updated, apininjas_updated, still_missing
    calendarific_updated_events,
    events_for_apininjas,
    run,                \* the number of the current run (the clock of last_updated)
    rejected,           \* database writes rejected so far
    changes,            \* page changes so far
    used,               \* history: _id -> what the lookup of this run returned
    fetch_ok,           \* history: source -> its fetch succeeded in this run
    fetches,            \* history: source -> the requests.get calls made for it in this run
    failed_writes,      \* history: _ids whose update_one in the loop was rejected
    after_first         \* history: the collection when the first run ended

duVars == <<events, web, dicts, pc, src_i, ev_i, stats, not_found_events, remaining,
            api_i, results, calendarific_updated_events, events_for_apininjas,
            run, rejected, changes,
            used, fetch_ok, fetches, failed_writes, after_first>>

\* The state of scraper.py
VARIABLES
    task,            \* url index -> the state of process_single_url for it
    scrape_history,  \* the scrape_history collection
    merged,          \* history: document -> the raw names upserted into it
    tick             \* the clock of last_updated and created_at

scrOnly == <<task, scrape_history, merged, tick>>

duOnly == <<web, dicts, pc, src_i, ev_i, stats, not_found_events, remaining, api_i,
            results, calendarific_updated_events, events_for_apininjas, run, rejected,
            changes, used, fetch_ok, fetches, failed_writes, after_first>>

\* One call of a function of the two programs, taken alone
VARIABLES
    call             \* the function, its input, whether it returned, its value

NoCall == [fn |-> "", arg |-> <<>>, done |-> FALSE, res |-> <<>>]

\* The state of GeminiDateUpdater.py
VARIABLES
    gem              \* where update_missing_dates is, its locals and its history

vars == <<events, duOnly, scrOnly, call, gem>>

(***************************************************************************)
(* The collection                                                          *)
(***************************************************************************)
\* Mutant of AddToSet: $push, which appends whether or not the value is there
AddToSetAsPush(urls, url) == Append(urls, url)

\* $addToSet: append unless already there
AddToSet(urls, url) == IF url \in Range(urls) THEN urls ELSE Append(urls, url)

\* Mutant of UpdateDates: the update document without "$set" replaces the
\* matched document, so the fields of the other collaborators are lost
UpdateDatesReplacing(coll, id, start_date, end_date, now, url) ==
    IF id \notin DOMAIN coll THEN coll
    ELSE [coll EXCEPT ![id] = [name |-> <<>>, category |-> "", image_url |-> "",
                               alternate_names |-> <<>>,
                               start_date |-> start_date, end_date |-> end_date,
                               last_updated |-> now, source_urls |-> <<url>>]]

\* update_one({"_id": id}, {"$set": {start_date, end_date, last_updated},
\*                          "$addToSet": {"source_urls": url}})
\* No upsert: a filter that matches nothing changes nothing.
UpdateDates(coll, id, start_date, end_date, now, url) ==
    IF id \notin DOMAIN coll THEN coll
    ELSE [coll EXCEPT ![id] = [@ EXCEPT !.start_date = start_date,
                                        !.end_date = end_date,
                                        !.last_updated = now,
                                        !.source_urls = AddToSet(@, url)]]

(***************************************************************************)
(* update_event_dates: the lookup                                          *)
(***************************************************************************)
\* possible_names + normalized_possible_names
CandidateKeys(event) ==
    LET possible_names ==
            <<lower(strip_parentheses(strip(event.name)))>>
            \o [i \in DOMAIN event.alternate_names |->
                    lower(strip_parentheses(event.alternate_names[i]))]
    IN  possible_names
        \o [i \in DOMAIN possible_names |-> normalize_event_name(possible_names[i])]

NoHit == [start_dt |-> None, end_dt |-> None, source |-> 0, key |-> 0]

\* Mutant of Lookup: a source that returned nothing makes the lookup give up
LookupNeedingEverySource(candidates, ds) ==
    LET hits == {c \in DOMAIN candidates : \E s \in DOMAIN ds : candidates[c] \in DOMAIN ds[s]}
    IN  IF hits = {} \/ \E s \in DOMAIN ds : ds[s] = EmptyDict THEN NoHit
        ELSE LET c == CHOOSE x \in hits : \A y \in hits : x <= y
                 holders == {s \in DOMAIN ds : candidates[c] \in DOMAIN ds[s]}
                 s == CHOOSE x \in holders : \A y \in holders : x <= y
             IN  [start_dt |-> ds[s][candidates[c]][1],
                  end_dt |-> ds[s][candidates[c]][2],
                  source |-> s, key |-> c]

\* for name in candidates: if name in york_dict ... elif name in canada_dict
\* ... break: the first candidate that any dictionary holds decides, and for
\* that candidate the first dictionary in source order.
Lookup(candidates, ds) ==
    LET hits == {c \in DOMAIN candidates : \E s \in DOMAIN ds : candidates[c] \in DOMAIN ds[s]}
    IN  IF hits = {} THEN NoHit
        ELSE LET c == CHOOSE x \in hits : \A y \in hits : x <= y
                 holders == {s \in DOMAIN ds : candidates[c] \in DOMAIN ds[s]}
                 s == CHOOSE x \in holders : \A y \in holders : x <= y
             IN  [start_dt |-> ds[s][candidates[c]][1],
                  end_dt |-> ds[s][candidates[c]][2],
                  source |-> s, key |-> c]

\* How one iteration of the loop classifies the lookup's answer
Outcome(hit) ==
    IF hit.start_dt = None /\ hit.end_dt = None THEN "not_found"
    ELSE IF hit.start_dt = None THEN "parse_failed"
    ELSE "update"

\* if not end_dt: end_dt = start_dt
EndOrStart(hit) == IF hit.end_dt = None THEN hit.start_dt ELSE hit.end_dt

(***************************************************************************)
(* update_remaining_events: the fallback APIs                              *)
(***************************************************************************)
\* event_name.lower() in api_name or api_name in event_name.lower() or
\* fuzz.ratio(event_name.lower(), api_name) > 85
ApiNameMatches(event_name, holiday_name) ==
    LET e == lower(event_name)
        a == lower(holiday_name)
    IN  IsSubstring(e, a) \/ IsSubstring(a, e) \/ fuzz_ratio(e, a) > FUZZ_THRESHOLD

\* fetch_from_calendarific / fetch_from_apininjas: the countries in order,
\* and in each the first matching holiday whose date parses; None if none.
RECURSIVE FetchFromApi(_, _)
FetchFromApi(event_name, answers) ==
    IF answers = <<>> THEN None
    ELSE LET resp == Head(answers)
             good == {h \in DOMAIN resp.holidays :
                         /\ ApiNameMatches(event_name, resp.holidays[h].name)
                         /\ resp.holidays[h].date # None}
         IN  IF resp.ok /\ good # {}
             THEN resp.holidays[CHOOSE h \in good : \A g \in good : h <= g].date
             ELSE FetchFromApi(event_name, Tail(answers))

\* [db_raw_name] + event.get("alternate_names", [])
NamesToTry(event) == <<strip(event.name)>> \o event.alternate_names

\* The names of an event for which the API returns a date, in the order tried
NamesWithDate(event, answers) ==
    SelectSeq(NamesToTry(event), LAMBDA n : FetchFromApi(n, answers) # None)

\* find({"$or": [start_date missing, end_date missing, last_updated missing]})
NeedsDates(doc) ==
    doc.start_date = None \/ doc.end_date = None \/ doc.last_updated = None

EventsToUpdate(coll) == SelectSeq([i \in DOMAIN coll |-> i], LAMBDA i : NeedsDates(coll[i]))

Min(a, b) == IF a < b THEN a ELSE b

ZeroStats == [total_events |-> 0, updated_from_scraping |-> 0, parse_failed |-> 0,
              not_found |-> 0]

ZeroResults == [calendarific_updated |-> 0, apininjas_updated |-> 0, still_missing |-> 0]

(***************************************************************************)
(* Actions of update_event_dates                                           *)
(***************************************************************************)
\* york_dict = scrape_york_accommodations() ... interfaith_observer_dict = ...
\* one source per step, in this order; a failed fetch gives the empty
\* dictionary.  After the sixth: stats is initialised and the events are read.
Scrape ==
    /\ pc = "scrape"
    /\ dicts' = [dicts EXCEPT ![src_i] = scrape(src_i, web.pages[src_i])]
    /\ fetch_ok' = [fetch_ok EXCEPT ![src_i] = web.pages[src_i].ok]
    /\ fetches' = [fetches EXCEPT ![src_i] = @ + 1]
    /\ IF src_i < NumSources
       THEN /\ src_i' = src_i + 1
            /\ UNCHANGED <<pc, ev_i, stats, not_found_events>>
       ELSE /\ pc' = "loop"
            /\ ev_i' = 1
            /\ stats' = ZeroStats
            /\ not_found_events' = <<>>
            /\ UNCHANGED src_i
    /\ UNCHANGED <<events, web, remaining, api_i, results, calendarific_updated_events,
                   events_for_apininjas, run, rejected, changes, used, failed_writes,
                   after_first>>

\* Mutant of NextIndex: the try/except is around the loop, so that a
\* rejected write ends the pass
NextIndexAborting(reject, i, n) == IF reject THEN n + 1 ELSE i + 1

\* The try/except around update_one is inside the loop body: whether or not
\* the write is rejected, the loop goes on with the next event.
NextIndex(reject, i, n) == i + 1

\* One iteration of "for event in events".  reject: the server rejects the
\* update_one of this iteration (the except branch prints and goes on).
ProcessEvent(reject) ==
    /\ pc = "loop"
    /\ ev_i <= Len(events)
    /\ reject => rejected < MaxRejects
    /\ LET event == events[ev_i]
           hit == Lookup(CandidateKeys(event), dicts)
           counted == [stats EXCEPT !.total_events = @ + 1]
       IN  /\ used' = [used EXCEPT ![ev_i] = hit]
           /\ CASE Outcome(hit) = "not_found" ->
                     /\ ~reject
                     /\ stats' = [counted EXCEPT !.not_found = @ + 1]
                     /\ not_found_events' = Append(not_found_events, ev_i)
                     /\ UNCHANGED <<events, rejected, failed_writes>>
                [] Outcome(hit) = "parse_failed" ->
                     /\ ~reject
                     /\ stats' = [counted EXCEPT !.parse_failed = @ + 1]
                     /\ UNCHANGED <<events, rejected, not_found_events, failed_writes>>
                [] OTHER ->
                     IF reject
                     THEN /\ stats' = counted
                          /\ rejected' = rejected + 1
                          /\ failed_writes' = failed_writes \cup {ev_i}
                          /\ UNCHANGED <<events, not_found_events>>
                     ELSE /\ events' = UpdateDates(events, ev_i, hit.start_dt, EndOrStart(hit),
                                                   run, SourceUrls[hit.source])
                          /\ stats' = [counted EXCEPT !.updated_from_scraping = @ + 1]
                          /\ UNCHANGED <<rejected, not_found_events, failed_writes>>
    /\ ev_i' = NextIndex(reject, ev_i, Len(events))
    /\ UNCHANGED <<web, dicts, pc, src_i, remaining, api_i, results,
                   calendarific_updated_events, events_for_apininjas, run, changes,
                   fetch_ok, fetches, after_first>>

\* After the loop: the summary, and if stats["not_found"] > 0 the events
\* that still lack a date field go to update_remaining_events.
EndLoop ==
    /\ pc = "loop"
    /\ ev_i > Len(events)
    /\ IF stats.not_found > 0 /\ EventsToUpdate(events) # <<>>
       THEN /\ remaining' = EventsToUpdate(events)
            /\ pc' = "calendarific"
       ELSE /\ remaining' = <<>>
            /\ pc' = "done"
    /\ api_i' = 1
    /\ results' = ZeroResults
    /\ calendarific_updated_events' = {}
    /\ events_for_apininjas' = <<>>
    /\ UNCHANGED <<events, web, dicts, src_i, ev_i, stats, not_found_events, run,
                   rejected, changes, used, fetch_ok, fetches, failed_writes, after_first>>

\* One iteration of the Calendarific pass of update_remaining_events.  Every
\* name with a date is tried until one write succeeds; r is the number of
\* writes the server rejects before that (each is printed and the next name
\* is tried).
CalendarificStep(r) ==
    /\ pc = "calendarific"
    /\ api_i <= Len(remaining)
    /\ LET id == remaining[api_i]
           names == NamesWithDate(events[id], web.calendarific)
       IN  /\ r <= Min(Len(names), MaxRejects - rejected)
           /\ rejected' = rejected + r
           /\ IF r < Len(names)
              THEN LET dt == FetchFromApi(names[r + 1], web.calendarific)
                   IN  /\ events' = UpdateDates(events, id, dt, dt, run, CALENDARIFIC_SOURCE)
                       /\ results' = [results EXCEPT !.calendarific_updated = @ + 1]
                       /\ calendarific_updated_events' = calendarific_updated_events \cup {id}
              ELSE UNCHANGED <<events, results, calendarific_updated_events>>
    /\ api_i' = api_i + 1
    /\ UNCHANGED <<web, dicts, pc, src_i, ev_i, stats, not_found_events, remaining,
                   events_for_apininjas, run, changes, used, fetch_ok, fetches, failed_writes, after_first>>

\* Mutant of EventsForApiNinjas: every remaining event goes to API Ninjas
EventsForApiNinjasUnfiltered(remaining_events, updated) == remaining_events

\* [e for e in remaining_events if e["_id"] not in calendarific_updated_events]
EventsForApiNinjas(remaining_events, updated) ==
    SelectSeq(remaining_events, LAMBDA id : id \notin updated)

\* The Calendarific pass is over: the events it did not update go to API Ninjas.
StartApiNinjas ==
    /\ pc = "calendarific"
    /\ api_i > Len(remaining)
    /\ events_for_apininjas' = EventsForApiNinjas(remaining, calendarific_updated_events)
    /\ api_i' = 1
    /\ pc' = "apininjas"
    /\ UNCHANGED <<events, web, dicts, src_i, ev_i, stats, not_found_events, remaining,
                   results, calendarific_updated_events, run, rejected, changes, used, fetch_ok, fetches, failed_writes,
                   after_first>>

\* One iteration of the API Ninjas pass
ApiNinjasStep(r) ==
    /\ pc = "apininjas"
    /\ api_i <= Len(events_for_apininjas)
    /\ LET id == events_for_apininjas[api_i]
           names == NamesWithDate(events[id], web.apininjas)
       IN  /\ r <= Min(Len(names), MaxRejects - rejected)
           /\ rejected' = rejected + r
           /\ IF r < Len(names)
              THEN LET dt == FetchFromApi(names[r + 1], web.apininjas)
                   IN  /\ events' = UpdateDates(events, id, dt, dt, run, APININJAS_SOURCE)
                       /\ results' = [results EXCEPT !.apininjas_updated = @ + 1]
              ELSE UNCHANGED <<events, results>>
    /\ api_i' = api_i + 1
    /\ UNCHANGED <<web, dicts, pc, src_i, ev_i, stats, not_found_events, remaining,
                   calendarific_updated_events, events_for_apininjas, run, changes, used, fetch_ok, fetches, failed_writes,
                   after_first>>

\* results["still_missing"] = len(remaining_events) - calendarific - apininjas
FinishRemaining ==
    /\ pc = "apininjas"
    /\ api_i > Len(events_for_apininjas)
    /\ results' = [results EXCEPT !.still_missing =
                       Len(remaining) - results.calendarific_updated
                                      - results.apininjas_updated]
    /\ pc' = "done"
    /\ UNCHANGED <<events, web, dicts, src_i, ev_i, stats, not_found_events, remaining,
                   api_i, calendarific_updated_events, events_for_apininjas, run,
                   rejected, changes, used, fetch_ok, fetches, failed_writes, after_first>>

\* The script is run again
NextRun ==
    /\ pc = "done"
    /\ run < MaxRuns
    /\ run' = run + 1
    /\ pc' = "scrape"
    /\ src_i' = 1
    /\ ev_i' = 1
    /\ api_i' = 1
    /\ dicts' = [s \in 1..NumSources |-> EmptyDict]
    /\ stats' = ZeroStats
    /\ not_found_events' = <<>>
    /\ remaining' = <<>>
    /\ results' = ZeroResults
    /\ calendarific_updated_events' = {}
    /\ events_for_apininjas' = <<>>
    /\ used' = [i \in DOMAIN events |-> NoHit]
    /\ fetch_ok' = [s \in 1..NumSources |-> TRUE]
    /\ fetches' = [s \in 1..NumSources |-> 0]
    /\ failed_writes' = {}
    /\ after_first' = IF run = 1 THEN events ELSE after_first
    /\ UNCHANGED <<events, web, rejected, changes>>

\* Between two runs a source serves another page (or fails, or recovers)
WebChange ==
    /\ pc = "done"
    /\ run < MaxRuns
    /\ changes < MaxWebChanges
    /\ changes' = changes + 1
    /\ \/ \E s \in 1..NumSources : \E p \in Pages(s) \ {web.pages[s]} :
             web' = [web EXCEPT !.pages[s] = p]
       \/ \E a \in CalendarificAnswers \ {web.calendarific} :
             web' = [web EXCEPT !.calendarific = a]
       \/ \E a \in ApiNinjasAnswers \ {web.apininjas} :
             web' = [web EXCEPT !.apininjas = a]
    /\ UNCHANGED <<events, dicts, pc, src_i, ev_i, stats, not_found_events, remaining,
                   api_i, results, calendarific_updated_events, events_for_apininjas,
                   run, rejected, used, fetch_ok, fetches, failed_writes, after_first>>

DUNext ==
    \/ Scrape /\ UNCHANGED <<scrOnly, call, gem>>
    \/ \E reject \in BOOLEAN : ProcessEvent(reject) /\ UNCHANGED <<scrOnly, call, gem>>
    \/ EndLoop /\ UNCHANGED <<scrOnly, call, gem>>
    \/ \E r \in 0..MaxRejects : CalendarificStep(r) /\ UNCHANGED <<scrOnly, call, gem>>
    \/ StartApiNinjas /\ UNCHANGED <<scrOnly, call, gem>>
    \/ \E r \in 0..MaxRejects : ApiNinjasStep(r) /\ UNCHANGED <<scrOnly, call, gem>>
    \/ FinishRemaining /\ UNCHANGED <<scrOnly, call, gem>>
    \/ NextRun /\ UNCHANGED <<scrOnly, call, gem>>
    \/ WebChange /\ UNCHANGED <<scrOnly, call, gem>>

(***************************************************************************)
(* Properties of update_event_dates                                        *)
(***************************************************************************)
\* The event with this _id has been through the loop in the current run
Processed(id) == pc # "scrape" /\ (pc = "loop" => id < ev_i)

AfterLoop == pc \in {"calendarific", "apininjas", "done"}

\* Some candidate key of the event is a key of the dictionary of source s
HeldBy(event, s) ==
    \E key \in Range(CandidateKeys(event)) : key \in DOMAIN dicts[s]

NoDuplicates(urls) == \A i, j \in DOMAIN urls : urls[i] = urls[j] => i = j

\* C1: whenever a candidate key of a processed event (primary or alternate
\* name, lower-cased or normalized) is in the dictionary of source s, the
\* interval and URL used for the event come from s or from a source of
\* higher priority, never from a lower one.
C1_HigherPrioritySourceWins ==
    \A id \in DOMAIN events : Processed(id) =>
        \A s \in 1..NumSources : HeldBy(events[id], s) => used[id].source \in 1..s

\* C2: every interval written to an event has start_date <= end_date.
C2_WrittenIntervalOrdered ==
    \A id \in DOMAIN events :
        events[id].start_date # None => events[id].start_date <= events[id].end_date

\* C3: a second run on the same source snapshot (no page changed, no write
\* rejected) leaves start_date, end_date and source_urls of every event as
\* the first run left them, and source_urls has no duplicate entry.
C3_SecondRunChangesNothing ==
    (run = 2 /\ pc = "done" /\ changes = 0 /\ rejected = 0) =>
        \A id \in DOMAIN events :
            /\ events[id].start_date = after_first[id].start_date
            /\ events[id].end_date = after_first[id].end_date
            /\ events[id].source_urls = after_first[id].source_urls
            /\ NoDuplicates(events[id].source_urls)

\* A second run on the same snapshot has written an event again
C3_Witness ==
    /\ run = 2 /\ pc = "done" /\ changes = 0 /\ rejected = 0
    /\ \E id \in DOMAIN events :
          /\ events[id].last_updated = 2
          /\ events[id].source_urls # <<>>
          /\ after_first[id].source_urls # <<>>

\* C4: every step of update_event_dates and update_remaining_events leaves
\* the set of documents and the name, category, alternate_names and image
\* of each document as they were.
C4_OnlyDateFieldsWritten ==
    [][/\ DOMAIN events' = DOMAIN events
       /\ \A id \in DOMAIN events :
             /\ events'[id].name = events[id].name
             /\ events'[id].category = events[id].category
             /\ events'[id].alternate_names = events[id].alternate_names
             /\ events'[id].image_url = events[id].image_url]_duVars

\* The loop has written one event and the fallback another
C4_Witness ==
    /\ \E id \in DOMAIN events : YORK_URL \in Range(events[id].source_urls)
    /\ \E id \in DOMAIN events : APININJAS_SOURCE \in Range(events[id].source_urls)

\* C5: when York yields ("Diwali", 2025-10-20, 2025-10-21) and Canada.ca
\* yields ("Deepavali", 2025-10-20, 2025-10-21), a run without a rejected
\* write ends with one record named Diwali whose source_urls holds both.
C5_MergeKeepsBothSources ==
    (/\ pc = "done" /\ run = 1 /\ rejected = 0
     /\ Diwali \in DOMAIN dicts[1] /\ dicts[1][Diwali] = <<MkDate(2025, 10, 20), MkDate(2025, 10, 21)>>
     /\ Deepavali \in DOMAIN dicts[2]
     /\ dicts[2][Deepavali] = <<MkDate(2025, 10, 20), MkDate(2025, 10, 21)>>) =>
        /\ Cardinality({id \in DOMAIN events : events[id].name = Diwali}) = 1
        /\ \A id \in DOMAIN events : events[id].name = Diwali =>
              {YORK_URL, CANADA_URL} \subseteq Range(events[id].source_urls)

\* C9: a source whose fetch failed contributes the empty dictionary, every
\* event is still processed, and an event that a working source holds is
\* resolved from a working source.
C9_FailedSourceIsEmptyRunGoesOn ==
    /\ pc # "scrape" =>
          \A s \in 1..NumSources : ~fetch_ok[s] => dicts[s] = EmptyDict
    /\ AfterLoop => stats.total_events = Len(events)
    /\ \A id \in DOMAIN events : Processed(id) =>
          ((\E s \in 1..NumSources : HeldBy(events[id], s))
              => used[id].source # 0 /\ fetch_ok[used[id].source])

\* York failed and Diwali was resolved from Canada.ca
C9_Witness ==
    /\ pc = "done"
    /\ ~fetch_ok[1]
    /\ used[1].source = 2
    /\ events[1].start_date = MkDate(2025, 10, 20)

\* C10: after the loop every event has been processed, also when a write
\* was rejected, and every event whose write was not rejected holds the
\* dates the loop wrote for it.
C10_RejectedWriteDoesNotStopThePass ==
    /\ AfterLoop => stats.total_events = Len(events)
    /\ \A id \in DOMAIN events :
          (Processed(id) /\ Outcome(used[id]) = "update" /\ id \notin failed_writes) =>
              /\ events[id].start_date = used[id].start_dt
              /\ events[id].end_date = EndOrStart(used[id])
              /\ events[id].last_updated = run

\* The write of the first event was rejected and the second was written
C10_Witness ==
    /\ pc = "done"
    /\ failed_writes = {1}
    /\ Outcome(used[2]) = "update"
    /\ events[2].last_updated = run
    /\ events[2].start_date = used[2].start_dt

(***************************************************************************)
(* scraper.py: EventDefinitions                                            *)
(***************************************************************************)
EVENTS_BY_CATEGORY ==
    <<
      [category |-> "Christianity",
       events |-> <<
         <<"E","p","i","p","h","a","n","y">>,
         <<"T","h","e","o","p","h","a","n","y">>,
         <<"C","h","r","i","s","t","m","a","s">>,
         <<"S","h","r","o","v","e"," ","T","u","e","s","d","a","y">>,
         <<"A","s","h"," ","W","e","d","n","e","s","d","a","y">>,
         <<"P","a","l","m"," ","S","u","n","d","a","y">>,
         <<"G","o","o","d"," ","F","r","i","d","a","y">>,
         <<"E","a","s","t","e","r">>,
         <<"A","l","l"," ","S","a","i","n","t","s"," ","D","a","y">>,
         <<"A","d","v","e","n","t">>,
         <<"A","s","c","e","n","s","i","o","n">>,
         <<"P","e","n","t","e","c","o","s","t">> >>],
      [category |-> "Buddhism",
       events |-> <<
         <<"M","a","h","a-","y","a-","n","a"," ","N","e","w"," ","Y","e","a","r">>,
         <<"L","u","n","a","r"," ","N","e","w"," ","Y","e","a","r">>,
         <<"N","i","r","v","a","n","a"," ","D","a","y">>,
         <<"M","a","g","h","a"," ","P","u","j","a">>,
         <<"F","e","s","t","i","v","a","l"," ","o","f"," ","H","i","g","a","n","-","e">>,
         <<"S","p","r","i","n","g"," ","O","h","i","g","a","n">>,
         <<"S","a","k","a"," ","N","e","w"," ","Y","e","a","r">>,
         <<"T","h","e","r","a","v","a-","d","a"," ","N","e","w"," ","Y","e","a","r">>,
         <<"W","e","s","a","k">>,
         <<"A","s","a","l","h","a"," ","P","u","j","a">>,
         <<"V","a","s","s","a">>,
         <<"F","e","s","t","i","v","a","l"," ","o","f"," ","K","s","i","t","i","g","a","r","b","h","a">>,
         <<"P","a","v","a","r","a","n","a"," ","D","a","y">>,
         <<"B","o","d","h","i"," ","D","a","y">> >>],
      [category |-> "Hinduism",
       events |-> <<
         <<"M","a","k","a","r"," ","S","a","n","k","r","a","n","t","i">>,
         <<"V","a","s","a","n","t","a"," ","P","a","n","c","h","a","m","i">>,
         <<"M","a","h","a","s","h","i","v","a","r","a","t","r","i">>,
         <<"H","o","l","i">>,
         <<"N","a","v","v","a","r","s","h","a">>,
         <<"R","a","m","a","n","a","v","a","m","i">>,
         <<"H","a","n","u","m","a","n"," ","J","a","y","a","n","t","i">>,
         <<"R","a","k","s","h","a"," ","B","a","n","d","h","a","n">>,
         <<"S","r","i"," ","K","r","i","s","h","n","a"," ","J","a","y","a","n","t","i">>,
         <<"G","a","n","e","s","h"," ","C","h","a","t","u","r","t","h","i">>,
         <<"N","a","v","a","r","a","t","r","i">>,
         <<"D","a","s","s","e","h","r","a">>,
         <<"D","i","w","a","l","i">>,
         <<"V","i","k","r","a","m"," ","N","e","w"," ","Y","e","a","r">> >>],
      [category |-> "Islam",
       events |-> <<
         <<"L","a","y","l","a","t"," ","a","l","-","M","i","'","r","a-","j">>,
         <<"L","a","y","l","a","t"," ","a","l"," ","B","a","r","a","a","t">>,
         <<"R","a","m","a","d","a","n">>,
         <<"L","a","y","l","a","t"," ","a","l","-","Q","a","d","r">>,
         <<"okina","I-","d"," ","a","l","-","F","i","t.","r">>,
         <<"okina","I-","d"," ","a","l","-","'","A","d.","h.","a'">>,
         <<"D","a","y"," ","o","f"," ","H.","a","j","j">>,
         <<"I","s","l","a","m","i","c"," ","N","e","w"," ","Y","e","a","r">>,
         <<"A-","s","h","u-","r","a-">>,
         <<"M","a","w","l","i","d"," ","a","l","-","N","a","b","i-","y">>,
         <<"B","i","r","t","h"," ","D","a","t","e"," ","o","f"," ","t","h","e"," ","A","g","a"," ","K","h","a","n">>,
         <<"A","r","b","a","e","e","n">> >>],
      [category |-> "Sikhism",
       events |-> <<
         <<"L","o","h","r","i">>,
         <<"B","i","r","t","h"," ","D","a","t","e"," ","o","f"," ","G","u","r","u"," ","G","o","b","i","n","d"," ","S","i","n","g","h"," ","J","i">>,
         <<"H","o","l","a"," ","M","o","h","a","l","l","a">>,
         <<"V","a","i","s","a","k","h","i">>,
         <<"M","a","r","t","y","r","d","o","m"," ","o","f"," ","G","u","r","u"," ","A","r","j","a","n"," ","D","e","v"," ","J","i">>,
         <<"I","n","s","t","a","l","l","a","t","i","o","n"," ","o","f"," ","t","h","e"," ","S","r","i"," ","G","u","r","u"," ","G","r","a","n","t","h"," ","S","a","h","i","b"," ","J","i">>,
         <<"B","a","n","d","h","i"," ","C","h","h","o","r"," ","D","i","v","a","s">>,
         <<"B","i","r","t","h"," ","D","a","t","e"," ","o","f"," ","G","u","r","u"," ","N","a","n","a","k"," ","D","e","v"," ","J","i">>,
         <<"M","a","r","t","y","r","d","o","m"," ","o","f"," ","G","u","r","u"," ","T","e","g","h"," ","B","a","h","a","d","u","r"," ","J","i">> >>],
      [category |-> "National Commemorative Days",
       events |-> <<
         <<"S","i","r"," ","J","o","h","n"," ","A","."," ","M","a","c","d","o","n","a","l","d"," ","D","a","y">>,
         <<"N","a","t","i","o","n","a","l"," ","F","l","a","g"," ","o","f"," ","C","a","n","a","d","a"," ","D","a","y">>,
         <<"C","o","m","m","o","n","w","e","a","l","t","h"," ","D","a","y">>,
         <<"V","i","c","t","o","r","i","a"," ","D","a","y">>,
         <<"S","a","i","n","t","-","J","e","a","n","-","B","a","p","t","i","s","t","e"," ","D","a","y">>,
         <<"C","a","n","a","d","a"," ","D","a","y">>,
         <<"E","m","a","n","c","i","p","a","t","i","o","n"," ","D","a","y">>,
         <<"P","e","r","s","o","n","s"," ","D","a","y">>,
         <<"I","n","d","i","g","e","n","o","u","s"," ","V","e","t","e","r","a","n","s"," ","D","a","y">>,
         <<"R","e","m","e","m","b","r","a","n","c","e"," ","D","a","y">> >>],
      [category |-> "Additional Observances",
       events |-> <<
         <<"M","i","d","-","A","u","t","u","m","n"," ","F","e","s","t","i","v","a","l">>,
         <<"C","h","i","n","e","s","e"," ","N","e","w"," ","Y","e","a","r">>,
         <<"P","r","i","d","e"," ","W","e","e","k","e","n","d">>,
         <<"T","h","a","n","k","s","g","i","v","i","n","g">>,
         <<"N","o","w","r","u","z">>,
         <<"L","e"," ","R","e'","v","e","i","l","l","o","n"," ","d","e"," ","N","o","e:","l">>,
         <<"Y","a","l","d","a">>,
         <<"4","s","h","a","n","b","e"," ","S","o","u","r","i">>,
         <<"M","i","d","s","u","m","m","e","r">>,
         <<"L","u","c","i","a">>,
         <<"L","a","b","o","u","r"," ","D","a","y">>,
         <<"N","a","t","i","o","n","a","l"," ","I","n","d","i","g","e","n","o","u","s"," ","P","e","o","p","l","e","s"," ","D","a","y">>,
         <<"N","a","t","i","o","n","a","l"," ","D","a","y"," ","f","o","r"," ","T","r","u","t","h"," ","a","n","d"," ","R","e","c","o","n","c","i","l","i","a","t","i","o","n">>,
         <<"N","a","t","i","o","n","a","l"," ","D","a","y"," ","f","o","r"," ","R","e","m","e","m","b","r","a","n","c","e"," ","a","n","d"," ","A","c","t","i","o","n"," ","o","n"," ","V","i","o","l","e","n","c","e"," ","A","g","a","i","n","s","t"," ","W","o","m","e","n">>,
         <<"S","t","."," ","P","a","t","r","i","c","k","'","s"," ","D","a","y">>,
         <<"F","a","m","i","l","y"," ","D","a","y">> >>]
    >>

ALTERNATE_NAMES ==
    <<
      [main_name |-> <<"C","h","r","i","s","t","m","a","s">>,
       alternates |-> <<
         <<"C","h","r","i","s","t","m","a","s"," ","D","a","y">>,
         <<"C","h","r","i","s","t","m","a","s"," ","E","v","e">>,
         <<"N","a","t","i","v","i","t","y"," ","o","f"," ","J","e","s","u","s">>,
         <<"N","a","t","i","v","i","t","y"," ","o","f"," ","t","h","e"," ","L","o","r","d">> >>],
      [main_name |-> <<"E","a","s","t","e","r">>,
       alternates |-> <<
         <<"E","a","s","t","e","r"," ","S","u","n","d","a","y">>,
         <<"E","a","s","t","e","r"," ","D","a","y">>,
         <<"R","e","s","u","r","r","e","c","t","i","o","n"," ","S","u","n","d","a","y">>,
         <<"P","a","s","c","h","a","l"," ","S","u","n","d","a","y">> >>],
      [main_name |-> <<"L","u","n","a","r"," ","N","e","w"," ","Y","e","a","r">>,
       alternates |-> <<
         <<"C","h","i","n","e","s","e"," ","N","e","w"," ","Y","e","a","r">>,
         <<"S","p","r","i","n","g"," ","F","e","s","t","i","v","a","l">>,
         <<"T","e^'","t">> >>],
      [main_name |-> <<"W","e","s","a","k">>,
       alternates |-> <<
         <<"V","e","s","a","k">>,
         <<"B","u","d","d","h","a"," ","D","a","y">>,
         <<"B","u","d","d","h","a"," ","P","u","r","n","i","m","a">>,
         <<"B","u","d","d","h","a"," ","J","a","y","a","n","t","i">> >>],
      [main_name |-> <<"D","i","w","a","l","i">>,
       alternates |-> <<
         <<"D","e","e","p","a","v","a","l","i">>,
         <<"F","e","s","t","i","v","a","l"," ","o","f"," ","L","i","g","h","t","s">>,
         <<"D","e","e","p","a","w","a","l","i">> >>],
      [main_name |-> <<"okina","I-","d"," ","a","l","-","F","i","t.","r">>,
       alternates |-> <<
         <<"E","i","d"," ","u","l","-","F","i","t","r">>,
         <<"E","i","d"," ","a","l","-","F","i","t","r">>,
         <<"R","a","m","a","d","a","n"," ","E","i","d">>,
         <<"L","e","s","s","e","r"," ","E","i","d">> >>],
      [main_name |-> <<"okina","I-","d"," ","a","l","-","'","A","d.","h.","a'">>,
       alternates |-> <<
         <<"E","i","d"," ","u","l","-","A","d","h","a">>,
         <<"E","i","d"," ","a","l","-","A","d","h","a">>,
         <<"B","a","k","r","i","d">>,
         <<"G","r","e","a","t","e","r"," ","E","i","d">> >>],
      [main_name |-> <<"V","a","i","s","a","k","h","i">>,
       alternates |-> <<
         <<"B","a","i","s","a","k","h","i">>,
         <<"V","a","i","s","a","k","h","d","i">>,
         <<"K","h","a","l","s","a"," ","D","a","y">> >>],
      [main_name |-> <<"N","o","w","r","u","z">>,
       alternates |-> <<
         <<"N","o","r","o","o","z">>,
         <<"P","e","r","s","i","a","n"," ","N","e","w"," ","Y","e","a","r">>,
         <<"I","r","a","n","i","a","n"," ","N","e","w"," ","Y","e","a","r">> >>],
      [main_name |-> <<"M","a","h","a","s","h","i","v","a","r","a","t","r","i">>,
       alternates |-> <<
         <<"M","a","h","a"," ","S","h","i","v","a","r","a","t","r","i">>,
         <<"G","r","e","a","t"," ","N","i","g","h","t"," ","o","f"," ","S","h","i","v","a">> >>],
      [main_name |-> <<"S","r","i"," ","K","r","i","s","h","n","a"," ","J","a","y","a","n","t","i">>,
       alternates |-> <<
         <<"J","a","n","m","a","s","h","t","a","m","i">>,
         <<"K","r","i","s","h","n","a"," ","J","a","n","m","a","s","h","t","a","m","i">>,
         <<"G","o","k","u","l","a","s","h","t","a","m","i">> >>],
      [main_name |-> <<"G","a","n","e","s","h"," ","C","h","a","t","u","r","t","h","i">>,
       alternates |-> <<
         <<"V","i","n","a","y","a","k","a"," ","C","h","a","t","u","r","t","h","i">>,
         <<"G","a","n","e","s","h","o","t","s","a","v">> >>],
      [main_name |-> <<"N","a","v","a","r","a","t","r","i">>,
       alternates |-> <<
         <<"N","a","v","r","a","t","r","i">>,
         <<"D","u","r","g","a"," ","P","u","j","a">>,
         <<"D","u","s","s","e","h","r","a">> >>],
      [main_name |-> <<"R","a","m","a","d","a","n">>,
       alternates |-> <<
         <<"R","a","m","a","z","a","n">>,
         <<"R","a","m","z","a","n">>,
         <<"M","o","n","t","h"," ","o","f"," ","F","a","s","t","i","n","g">> >>],
      [main_name |-> <<"I","s","l","a","m","i","c"," ","N","e","w"," ","Y","e","a","r">>,
       alternates |-> <<
         <<"H","i","j","r","i"," ","N","e","w"," ","Y","e","a","r">>,
         <<"A","r","a","b","i","c"," ","N","e","w"," ","Y","e","a","r">>,
         <<"M","u","h","a","r","r","a","m">> >>],
      [main_name |-> <<"A-","s","h","u-","r","a-">>,
       alternates |-> <<
         <<"A","s","h","u","r","a">>,
         <<"Y","a","w","m"," ","A","s","h","u","r","a">>,
         <<"D","a","y"," ","o","f"," ","A","s","h","u","r","a">> >>],
      [main_name |-> <<"M","a","w","l","i","d"," ","a","l","-","N","a","b","i-","y">>,
       alternates |-> <<
         <<"M","a","w","l","i","d">>,
         <<"M","i","l","a","d"," ","u","n"," ","N","a","b","i">>,
         <<"P","r","o","p","h","e","t","'","s"," ","B","i","r","t","h","d","a","y">> >>],
      [main_name |-> <<"M","i","d","-","A","u","t","u","m","n"," ","F","e","s","t","i","v","a","l">>,
       alternates |-> <<
         <<"M","o","o","n"," ","F","e","s","t","i","v","a","l">>,
         <<"M","o","o","n","c","a","k","e"," ","F","e","s","t","i","v","a","l">> >>],
      [main_name |-> <<"N","a","t","i","o","n","a","l"," ","D","a","y"," ","f","o","r"," ","T","r","u","t","h"," ","a","n","d"," ","R","e","c","o","n","c","i","l","i","a","t","i","o","n">>,
       alternates |-> <<
         <<"O","r","a","n","g","e"," ","S","h","i","r","t"," ","D","a","y">> >>],
      [main_name |-> <<"F","a","m","i","l","y"," ","D","a","y">>,
       alternates |-> <<
         <<"O","n","t","a","r","i","o"," ","F","a","m","i","l","y"," ","D","a","y">>,
         <<"P","r","o","v","i","n","c","i","a","l"," ","F","a","m","i","l","y"," ","D","a","y">> >>]
    >>

\* Written where Python has None for a category
NoCategory == ""

\* The names of ALTERNATE_NAMES in the order the fuzzy loop visits them:
\* each main name, then its alternates; main is the name returned.
RECURSIVE FlatAlternatesFrom(_)
FlatAlternatesFrom(i) ==
    IF i > Len(ALTERNATE_NAMES) THEN <<>>
    ELSE LET e == ALTERNATE_NAMES[i]
         IN  <<[main |-> e.main_name, cand |-> e.main_name]>>
             \o [a \in DOMAIN e.alternates |-> [main |-> e.main_name, cand |-> e.alternates[a]]]
             \o FlatAlternatesFrom(i + 1)

FlatAlternates == FlatAlternatesFrom(1)

\* Mutant of EventDefinitions_normalize_event_name: the comparison with
\* highest_ratio is >= and not >, so that of the names with the highest
\* ratio the last visited wins
EventDefinitions_normalize_event_name_last_wins(raw) ==
    LET FuzzyMatch(name, ratios) ==
            LET above == {r \in ratios : r[2] > FUZZ_THRESHOLD}
                best  == {r \in above : \A q \in above : q[2] <= r[2]}
            IN  IF above = {} THEN name
                ELSE FlatAlternates[(CHOOSE r \in best : \A q \in best : r[1] >= q[1])[1]].main
        Normalize(name, exact) ==
            IF exact # {}
            THEN ALTERNATE_NAMES[CHOOSE i \in exact : \A j \in exact : i <= j].main_name
            ELSE At2(FuzzyMatch, name,
                     {<<i, fuzz_ratio(lower(name), lower(FlatAlternates[i].cand))>> :
                         i \in DOMAIN FlatAlternates})
        Stripped(name) ==
            At2(Normalize, name,
                {i \in DOMAIN ALTERNATE_NAMES :
                    \/ lower(name) = lower(ALTERNATE_NAMES[i].main_name)
                    \/ \E a \in DOMAIN ALTERNATE_NAMES[i].alternates :
                          lower(name) = lower(ALTERNATE_NAMES[i].alternates[a])})
    IN  At(Stripped, strip(raw))

\* EventDefinitions.normalize_event_name: the main name of the first table
\* entry that equals the name or one of its alternates ignoring case; else
\* the main name of the first visited name with the highest ratio, if that
\* ratio is above 85; else the stripped name.
EventDefinitions_normalize_event_name(raw) ==
    LET FuzzyMatch(name, ratios) ==
            LET above == {r \in ratios : r[2] > FUZZ_THRESHOLD}
                best  == {r \in above : \A q \in above : q[2] <= r[2]}
            IN  IF above = {} THEN name
                ELSE FlatAlternates[(CHOOSE r \in best : \A q \in best : r[1] <= q[1])[1]].main
        Normalize(name, exact) ==
            IF exact # {}
            THEN ALTERNATE_NAMES[CHOOSE i \in exact : \A j \in exact : i <= j].main_name
            ELSE At2(FuzzyMatch, name,
                     {<<i, fuzz_ratio(lower(name), lower(FlatAlternates[i].cand))>> :
                         i \in DOMAIN FlatAlternates})
        Stripped(name) ==
            At2(Normalize, name,
                {i \in DOMAIN ALTERNATE_NAMES :
                    \/ lower(name) = lower(ALTERNATE_NAMES[i].main_name)
                    \/ \E a \in DOMAIN ALTERNATE_NAMES[i].alternates :
                          lower(name) = lower(ALTERNATE_NAMES[i].alternates[a])})
    IN  At(Stripped, strip(raw))

\* EventDefinitions.get_all_events
get_all_events ==
    UNION {Range(EVENTS_BY_CATEGORY[c].events) : c \in DOMAIN EVENTS_BY_CATEGORY}
    \cup {ALTERNATE_NAMES[i].main_name : i \in DOMAIN ALTERNATE_NAMES}
    \cup UNION {Range(ALTERNATE_NAMES[i].alternates) : i \in DOMAIN ALTERNATE_NAMES}

\* Mutant of get_event_category: the name is looked up as given, without the
\* alias resolution of normalize_event_name
get_event_category_unresolved(event_name) ==
    LET First(fits) ==
            IF fits = {} THEN NoCategory
            ELSE EVENTS_BY_CATEGORY[CHOOSE c \in fits : \A d \in fits : c <= d].category
        Category(normalized_name) ==
            At(First, {c \in DOMAIN EVENTS_BY_CATEGORY :
                          \/ normalized_name \in Range(EVENTS_BY_CATEGORY[c].events)
                          \/ \E e \in Range(EVENTS_BY_CATEGORY[c].events) :
                                fuzz_ratio(lower(normalized_name), lower(e)) > FUZZ_THRESHOLD})
    IN  At(Category, strip(event_name))

\* EventDefinitions.get_event_category: the first category, in table order,
\* that holds the normalized name or a name with ratio above 85
get_event_category(event_name) ==
    LET First(fits) ==
            IF fits = {} THEN NoCategory
            ELSE EVENTS_BY_CATEGORY[CHOOSE c \in fits : \A d \in fits : c <= d].category
        Category(normalized_name) ==
            At(First, {c \in DOMAIN EVENTS_BY_CATEGORY :
                          \/ normalized_name \in Range(EVENTS_BY_CATEGORY[c].events)
                          \/ \E e \in Range(EVENTS_BY_CATEGORY[c].events) :
                                fuzz_ratio(lower(normalized_name), lower(e)) > FUZZ_THRESHOLD})
    IN  At(Category, EventDefinitions_normalize_event_name(event_name))

\* EventsDatabase._is_tracked_event
is_tracked_event(event_name) ==
    /\ event_name # <<>>
    /\ \/ EventDefinitions_normalize_event_name(event_name) \in get_all_events
       \/ \E tracked \in get_all_events :
             fuzz_ratio(lower(event_name), lower(tracked)) > FUZZ_THRESHOLD

(***************************************************************************)
(* scraper.py: scrape_events, process_single_url, insert_events            *)
(***************************************************************************)
\* URLs handed to scrape_events
MaxUrls == 2

\* Events the AI model returns for one page
MaxExtracted == 1

\* ThreadPoolExecutor(max_workers=4)
max_workers == 4

\* The URLs of main(), as many as the model runs
ScrapeUrls == FirstN(<<YORK_URL, CANADA_URL, ONTARIO_URL>>, MaxUrls)

ChineseNewYear == <<"C","h","i","n","e","s","e"," ","N","e","w"," ","Y","e","a","r">>

LunarNewYear == <<"L","u","n","a","r"," ","N","e","w"," ","Y","e","a","r">>

Diwalli == <<"D","i","w","a","l","l","i">>

Halloween == <<"H","a","l","l","o","w","e","e","n">>

\* datetime.strptime(text, '%d-%m-%y'), text given as <<dd, mm, yy>>: None
\* stands for the ValueError of a text that is no date
ParseDdMmYy(text) ==
    LET yyyy == IF text[3] < 69 THEN 2000 + text[3] ELSE 1900 + text[3]
    IN  IF text[3] \in 0..99 /\ ValidDate(yyyy, text[2], text[1])
        THEN MkDate(yyyy, text[2], text[1]) ELSE None

ExtractedEvent(name, start, end) ==
    [Name |-> name, StartDate |-> start, EndDate |-> end, AdditionalDetails |-> "details"]

\* What the AI model may return as one event of a page
ExtractedEvents ==
    { ExtractedEvent(Diwali, <<20, 10, 25>>, <<21, 10, 25>>),
      ExtractedEvent(Deepavali, <<20, 10, 25>>, <<21, 10, 25>>),
      ExtractedEvent(Diwalli, <<21, 10, 25>>, <<21, 10, 25>>),
      ExtractedEvent(ChineseNewYear, <<29, 1, 25>>, <<29, 1, 25>>),
      ExtractedEvent(LunarNewYear, <<29, 1, 25>>, <<12, 2, 25>>),
      ExtractedEvent(Halloween, <<31, 10, 25>>, <<31, 10, 25>>),
      ExtractedEvent(Diwali, <<31, 11, 25>>, <<31, 11, 25>>) }

RECURSIVE SeqsUpTo(_, _)
SeqsUpTo(S, n) ==
    IF n = 0 THEN {<<>>}
    ELSE SeqsUpTo(S, n - 1) \cup {Append(s, x) : s \in {t \in SeqsUpTo(S, n - 1) : Len(t) = n - 1}, x \in S}

\* events_list of process_single_url
EventLists == SeqsUpTo(ExtractedEvents, MaxExtracted) \ {<<>>}

NoDoc == [name |-> <<>>]

IdleTask == [pc |-> "queued", events_list |-> <<>>, k |-> 1, successful_updates |-> 0,
             event_doc |-> NoDoc, raw_name |-> <<>>]

\* Mutant of ScrapeRecord: every scrape is recorded as successful
ScrapeRecordAsSuccess(source_url, success, events_count, error) ==
    [source_url |-> source_url, success |-> TRUE, events_count |-> events_count,
     error |-> error]

\* record_scrape
ScrapeRecord(source_url, success, events_count, error) ==
    [source_url |-> source_url, success |-> success, events_count |-> events_count,
     error |-> error]

\* _is_tracked_event, normalize_event_name and get_event_category of the names
\* the model extracts, computed once
NameResolution ==
    [name \in {e.Name : e \in ExtractedEvents} |->
        [tracked |-> is_tracked_event(name),
         normalized_name |-> EventDefinitions_normalize_event_name(name),
         category |-> get_event_category(EventDefinitions_normalize_event_name(name))]]

\* The document insert_events builds for an extracted event, or NoDoc when
\* the event is skipped: not tracked, a date that does not parse, no category.
EventDoc(event, now) ==
    LET start_date == ParseDdMmYy(event.StartDate)
        end_date == ParseDdMmYy(event.EndDate)
        normalized_name == NameResolution[event.Name].normalized_name
        category == NameResolution[event.Name].category
    IN  IF ~NameResolution[event.Name].tracked THEN NoDoc
        ELSE IF start_date = None \/ end_date = None THEN NoDoc
        ELSE IF category = NoCategory THEN NoDoc
        ELSE [name |-> normalized_name, category |-> category,
              start_date |-> start_date, end_date |-> end_date,
              additional_details |-> event.AdditionalDetails, last_updated |-> now]

\* ALTERNATE_NAMES.get(normalized_name, [])
AlternatesOf(name) ==
    LET own == {i \in DOMAIN ALTERNATE_NAMES : ALTERNATE_NAMES[i].main_name = name}
    IN  IF own = {} THEN <<>> ELSE ALTERNATE_NAMES[CHOOSE i \in own : TRUE].alternates

\* The documents the filter {name, start_date} of insert_events matches
Matching(coll, doc) ==
    {i \in DOMAIN coll : coll[i].name = doc.name /\ coll[i].start_date = doc.start_date}

\* update_one({name, start_date}, {$set: event_doc, $addToSet: {source_urls},
\*            $setOnInsert: {created_at, alternate_names}}, upsert=True):
\* the first matching document is updated, and if none matches one is inserted
Upsert(coll, doc, source_url, now) ==
    IF Matching(coll, doc) # {}
    THEN LET i == CHOOSE x \in Matching(coll, doc) : \A y \in Matching(coll, doc) : x <= y
         IN  [coll EXCEPT ![i] = [@ EXCEPT !.name = doc.name,
                                           !.category = doc.category,
                                           !.start_date = doc.start_date,
                                           !.end_date = doc.end_date,
                                           !.additional_details = doc.additional_details,
                                           !.last_updated = doc.last_updated,
                                           !.source_urls = AddToSet(@, source_url)]]
    ELSE Append(coll, [name |-> doc.name, category |-> doc.category,
                       start_date |-> doc.start_date, end_date |-> doc.end_date,
                       additional_details |-> doc.additional_details,
                       last_updated |-> doc.last_updated,
                       source_urls |-> <<source_url>>,
                       created_at |-> now,
                       alternate_names |-> AlternatesOf(doc.name)])

\* The history of raw names follows the same document
MergedAfter(coll, hist, doc, raw_name) ==
    IF Matching(coll, doc) # {}
    THEN LET i == CHOOSE x \in Matching(coll, doc) : \A y \in Matching(coll, doc) : x <= y
         IN  [hist EXCEPT ![i] = @ \cup {raw_name}]
    ELSE Append(hist, {raw_name})

Running == {u \in DOMAIN task : task[u].pc \notin {"queued", "done"}}

\* A worker of the pool takes the submitted task
StartTask(u) ==
    /\ task[u].pc = "queued"
    /\ Cardinality(Running) < max_workers
    /\ task' = [task EXCEPT ![u].pc = "start"]
    /\ UNCHANGED <<events, scrape_history, merged, tick>>

\* get_website_html fails, or the model raises, or the response holds no
\* events: the scrape is recorded as failed
FetchFails(u, error) ==
    /\ task[u].pc = "start"
    /\ scrape_history' = Append(scrape_history, ScrapeRecord(ScrapeUrls[u], FALSE, 0, error))
    /\ task' = [task EXCEPT ![u].pc = "done"]
    /\ UNCHANGED <<events, merged, tick>>

\* The page is fetched and the model returns events_list
Extract(u, events_list) ==
    /\ task[u].pc = "start"
    /\ task' = [task EXCEPT ![u].pc = "insert", ![u].events_list = events_list, ![u].k = 1]
    /\ UNCHANGED <<events, scrape_history, merged, tick>>

\* insert_events, one event of the list up to the call of update_one: the
\* event is skipped, or its document is built and the upsert is issued
PrepareEvent(u) ==
    /\ task[u].pc = "insert"
    /\ task[u].k <= Len(task[u].events_list)
    /\ LET event == task[u].events_list[task[u].k]
           doc == EventDoc(event, tick + 1)
       IN  IF doc = NoDoc
           THEN task' = [task EXCEPT ![u].k = @ + 1]
           ELSE task' = [task EXCEPT ![u].pc = "upsert", ![u].event_doc = doc,
                                     ![u].raw_name = event.Name]
    /\ tick' = tick + 1
    /\ UNCHANGED <<events, scrape_history, merged>>

\* update_one returns: the collection has changed and the update is counted
\* (last_updated makes every update a modification), or the server rejected
\* the write and the exception is logged
UpsertReturns(u, reject) ==
    /\ task[u].pc = "upsert"
    /\ IF reject
       THEN /\ task' = [task EXCEPT ![u].pc = "insert", ![u].k = @ + 1, ![u].event_doc = NoDoc,
                                    ![u].raw_name = <<>>]
            /\ UNCHANGED <<events, merged>>
       ELSE /\ events' = Upsert(events, task[u].event_doc, ScrapeUrls[u], tick + 1)
            /\ merged' = MergedAfter(events, merged, task[u].event_doc, task[u].raw_name)
            /\ task' = [task EXCEPT ![u].pc = "insert", ![u].k = @ + 1,
                                    ![u].successful_updates = @ + 1,
                                    ![u].event_doc = NoDoc, ![u].raw_name = <<>>]
    /\ tick' = tick + 1
    /\ UNCHANGED scrape_history

\* insert_events has returned: the scrape is recorded as successful
RecordScrape(u) ==
    /\ task[u].pc = "insert"
    /\ task[u].k > Len(task[u].events_list)
    /\ scrape_history' = Append(scrape_history,
                                ScrapeRecord(ScrapeUrls[u], TRUE, task[u].successful_updates, ""))
    /\ task' = [task EXCEPT ![u].pc = "done"]
    /\ UNCHANGED <<events, merged, tick>>

ScrNext ==
    \/ \E u \in DOMAIN ScrapeUrls : StartTask(u) /\ UNCHANGED <<duOnly, call, gem>>
    \/ \E u \in DOMAIN ScrapeUrls :
          \E error \in {"Failed to fetch HTML", "No tracked events found", "exception"} :
             FetchFails(u, error) /\ UNCHANGED <<duOnly, call, gem>>
    \/ \E u \in DOMAIN ScrapeUrls : \E l \in EventLists : Extract(u, l) /\ UNCHANGED <<duOnly, call, gem>>
    \/ \E u \in DOMAIN ScrapeUrls : PrepareEvent(u) /\ UNCHANGED <<duOnly, call, gem>>
    \/ \E u \in DOMAIN ScrapeUrls : \E reject \in BOOLEAN :
          UpsertReturns(u, reject) /\ UNCHANGED <<duOnly, call, gem>>
    \/ \E u \in DOMAIN ScrapeUrls : RecordScrape(u) /\ UNCHANGED <<duOnly, call, gem>>

(***************************************************************************)
(* Properties of scrape_events and insert_events                           *)
(***************************************************************************)
\* C6: the events collection holds at most one record per canonical
\* (alias-resolved) event name, whatever insert_events calls have been made,
\* also when two sources report different start dates for the observance.
C6_OneRecordPerCanonicalName ==
    \A i, j \in DOMAIN events : events[i].name = events[j].name => i = j

\* C7: no persisted record has been merged from a source record named
\* "Chinese New Year" and a source record named "Lunar New Year": names with
\* different cultural qualifiers are never merged into one record.
C7_DifferentQualifiersNeverMerged ==
    \A i \in DOMAIN merged : ~({ChineseNewYear, LunarNewYear} \subseteq merged[i])

\* C8: at no time are two workers of scrape_events inside the upsert of
\* insert_events for the same canonical event name: the writes to one event
\* are serialized.
C8_UpsertsOfOneEventSerialized ==
    \A u, v \in DOMAIN task :
        (/\ task[u].pc = "upsert"
         /\ task[v].pc = "upsert"
         /\ task[u].event_doc.name = task[v].event_doc.name) => u = v

\* The records of scrape_history for the URL of task u
RecordsOf(u) ==
    {i \in DOMAIN scrape_history : scrape_history[i].source_url = ScrapeUrls[u]}

Printed ==
    {<<"Failed to retrieve page", s>> : s \in {x \in 1..NumSources : ~fetch_ok[x]}}
    \cup (IF AfterLoop THEN {<<"SCRAPING SUMMARY", stats>>} ELSE {})
    \cup (IF pc = "done" /\ remaining # <<>>
          THEN {<<"API UPDATE SUMMARY", results>>, <<"FINAL RESULTS", stats>>} ELSE {})

\* C11: after the loop total_events is the sum of the outcome counters of
\* the summary: every processed event, also one whose write was rejected,
\* is counted in exactly one outcome.
C11_SummaryCountsEveryEvent ==
    AfterLoop =>
        stats.total_events =
            stats.updated_from_scraping + stats.parse_failed + stats.not_found

\* C12: a run in which every fetch failed does not end as a normal run: it
\* prints no scraping summary, and what it prints names the unavailability
\* of all sources.
C12_AllSourcesDownIsSurfaced ==
    (pc = "done" /\ \A s \in 1..NumSources : ~fetch_ok[s]) =>
        /\ \A m \in Printed : m[1] # "SCRAPING SUMMARY"
        /\ \E m \in Printed : m[1] = "All sources unavailable"

\* C16: every entry of every source dictionary built in a run holds a start
\* date and an end date; none holds a start date without an end date.
C16_NoPartialInterval ==
    \A s \in 1..NumSources : \A key \in DOMAIN dicts[s] :
        dicts[s][key][1] # None /\ dicts[s][key][2] # None

\* C20: the events update_event_dates hands to update_remaining_events are
\* the events it classified not-found in the current run: every not-found
\* event is escalated, and no event that was updated or parse-failed is.
C20_EscalatedIffNotFound ==
    AfterLoop => Range(remaining) = Range(not_found_events)

(***************************************************************************)
(* source_urls over several runs                                           *)
(***************************************************************************)
\* The dictionary of source s, as scraped in the current run, gives the
\* event the interval the event now has (an entry without an end date gives
\* the one day of its start date)
Yields(s, event) ==
    \E key \in Range(CandidateKeys(event)) :
        /\ key \in DOMAIN dicts[s]
        /\ event.start_date = dicts[s][key][1]
        /\ event.end_date = IF dicts[s][key][2] = None THEN dicts[s][key][1]
                            ELSE dicts[s][key][2]

\* C22: after any sequence of runs, every URL of a scraped source in an
\* event's source_urls is a source whose data yields the event's current
\* interval; the URL of a source whose date was superseded is not kept.
C22_SourceUrlsYieldCurrentInterval ==
    pc = "done" =>
        \A id \in DOMAIN events : \A s \in 1..NumSources :
            SourceUrls[s] \in Range(events[id].source_urls) => Yields(s, events[id])

(***************************************************************************)
(* The fetches of one run                                                  *)
(***************************************************************************)
\* C23: a source whose fetch failed is given up and treated as empty only
\* after 3 attempts, and no source is fetched more than 3 times in one run.
C23_FailedFetchIsRetried ==
    /\ \A s \in 1..NumSources : fetches[s] <= 3
    /\ pc # "scrape" =>
          \A s \in 1..NumSources : ~fetch_ok[s] => fetches[s] = 3

(***************************************************************************)
(* update_remaining_events: the two passes                                 *)
(***************************************************************************)
\* What holds in every state of update_remaining_events and after it
FallbackCounts ==
    /\ results.calendarific_updated = Cardinality(calendarific_updated_events)
    /\ calendarific_updated_events \subseteq Range(remaining)
    /\ results.calendarific_updated + results.apininjas_updated <= Len(remaining)
    /\ results.still_missing >= 0
    /\ pc = "done" /\ remaining # <<>> =>
          results.still_missing = Len(remaining) - results.calendarific_updated
                                                 - results.apininjas_updated
    /\ pc = "apininjas" =>
          \A i \in DOMAIN events_for_apininjas :
              events_for_apininjas[i] \notin calendarific_updated_events

\* What holds of every step: the API Ninjas pass starts when the Calendarific
\* pass has been over all the events; an event API Ninjas is asked about or
\* writes is one Calendarific did not update; a pass counts an event only
\* with the write of that event, and by one
FallbackStep ==
    /\ (pc # "apininjas" /\ pc' = "apininjas") =>
          pc = "calendarific" /\ api_i > Len(remaining)
    /\ (pc = "apininjas" /\ api_i' = api_i + 1) =>
          /\ events_for_apininjas[api_i] \notin calendarific_updated_events
          /\ \A id \in DOMAIN events :
                events'[id] # events[id] => id = events_for_apininjas[api_i]
          /\ results'.apininjas_updated \in
                {results.apininjas_updated, results.apininjas_updated + 1}
          /\ results'.apininjas_updated = results.apininjas_updated + 1 =>
                events'[events_for_apininjas[api_i]].source_urls
                    = AddToSet(events[events_for_apininjas[api_i]].source_urls, APININJAS_SOURCE)
    /\ (pc = "calendarific" /\ api_i' = api_i + 1) =>
          /\ results'.calendarific_updated \in
                {results.calendarific_updated, results.calendarific_updated + 1}
          /\ results'.apininjas_updated = results.apininjas_updated
          /\ \A id \in DOMAIN events : events'[id] # events[id] => id = remaining[api_i]

\* C26: in update_remaining_events API Ninjas is asked about an event only
\* after the Calendarific pass over all events has finished and only if
\* Calendarific did not update the event; no event is written by both, each
\* event is counted at most once, and still_missing is never negative.
C26_FallbackApisInSequence == []FallbackCounts /\ [][FallbackStep]_vars

\* Calendarific updated Diwali, API Ninjas then updated Ashura, and nothing
\* is still missing
C26_Witness ==
    /\ pc = "done"
    /\ Len(remaining) = 2
    /\ calendarific_updated_events = {1}
    /\ events_for_apininjas = <<2>>
    /\ results = [calendarific_updated |-> 1, apininjas_updated |-> 1, still_missing |-> 0]
    /\ CALENDARIFIC_SOURCE \in Range(events[1].source_urls)
    /\ APININJAS_SOURCE \in Range(events[2].source_urls)
    /\ APININJAS_SOURCE \notin Range(events[1].source_urls)

(***************************************************************************)
(* Date texts: parse_month_day_year, get_nth_weekday,                      *)
(* parse_nth_weekday_pattern                                               *)
(***************************************************************************)
\* str.replace(c, '')
RemoveChar(s, c) == SelectSeq(s, LAMBDA x : x # c)

\* The words of a text: its maximal runs without white space
Words(s) == SelectSeq(SplitOn(s, {" "}, <<>>), LAMBDA w : w # <<>>)

IsLetter(c) == c \in Range(UpperChars) \cup Range(LowerChars)

\* \d{lo,hi} on a whole word
IsNumber(w, lo, hi) == Len(w) \in lo..hi /\ \A i \in DOMAIN w : w[i] \in Digits

\* int(w) for a word of digits
RECURSIVE int(_)
int(w) ==
    IF w = <<>> THEN 0
    ELSE 10 * int(SubSeq(w, 1, Len(w) - 1))
         + (CHOOSE n \in 0..9 : <<"0","1","2","3","4","5","6","7","8","9">>[n + 1] = w[Len(w)])

EndsWith(w, suffix) ==
    Len(w) >= Len(suffix) /\ SubSeq(w, Len(w) - Len(suffix) + 1, Len(w)) = suffix

StartsWith(w, prefix) == Len(w) >= Len(prefix) /\ SubSeq(w, 1, Len(prefix)) = prefix

\* The month names of month_map and of the formats %B and, cut to three
\* letters, %b
MONTH_NAMES ==
    << <<"j","a","n","u","a","r","y">>,
       <<"f","e","b","r","u","a","r","y">>,
       <<"m","a","r","c","h">>,
       <<"a","p","r","i","l">>,
       <<"m","a","y">>,
       <<"j","u","n","e">>,
       <<"j","u","l","y">>,
       <<"a","u","g","u","s","t">>,
       <<"s","e","p","t","e","m","b","e","r">>,
       <<"o","c","t","o","b","e","r">>,
       <<"n","o","v","e","m","b","e","r">>,
       <<"d","e","c","e","m","b","e","r">> >>

\* month_map.get(month_str.lower()), and what %B matches (strptime ignores
\* case): the number of the month, 0 for no month
full_month(month_str) ==
    IF \E m \in DOMAIN MONTH_NAMES : MONTH_NAMES[m] = lower(month_str)
    THEN CHOOSE m \in DOMAIN MONTH_NAMES : MONTH_NAMES[m] = lower(month_str)
    ELSE 0

\* What %b matches: Jan, Feb, ..., Dec in any case
abbreviated_month(month_str) ==
    IF \E m \in DOMAIN MONTH_NAMES : SubSeq(MONTH_NAMES[m], 1, 3) = lower(month_str)
    THEN CHOOSE m \in DOMAIN MONTH_NAMES : SubSeq(MONTH_NAMES[m], 1, 3) = lower(month_str)
    ELSE 0

\* datetime.strptime(date_string, "%b %d, %Y").date() when full is FALSE and
\* with "%B %d, %Y" when it is TRUE; None stands for the ValueError.  The
\* whole string must be a month name, white space, a day of one or two
\* digits, a comma, white space and a year of four digits.
strptime(date_string, full) ==
    LET Month(w) == IF full THEN full_month(w) ELSE abbreviated_month(w)
        Parsed(w) ==
            IF /\ Len(w) = 3
               /\ Month(w[1]) # 0
               /\ EndsWith(w[2], <<",">>)
               /\ IsNumber(SubSeq(w[2], 1, Len(w[2]) - 1), 1, 2)
               /\ int(SubSeq(w[2], 1, Len(w[2]) - 1)) \in 1..31
               /\ IsNumber(w[3], 4, 4)
               /\ int(w[3]) >= 1
               /\ ValidDate(int(w[3]), Month(w[1]), int(SubSeq(w[2], 1, Len(w[2]) - 1)))
            THEN MkDate(int(w[3]), Month(w[1]), int(SubSeq(w[2], 1, Len(w[2]) - 1)))
            ELSE None
    IN  At(Parsed, Words(date_string))

\* parse_month_day_year: the periods are removed, then "%b %d, %Y" and
\* "%B %d, %Y" are tried in this order
parse_month_day_year(date_str) ==
    LET Tried(cleaned_str) ==
            IF strptime(cleaned_str, FALSE) # None THEN strptime(cleaned_str, FALSE)
            ELSE strptime(cleaned_str, TRUE)
    IN  At(Tried, strip(RemoveChar(date_str, ".")))

\* date.toordinal(): the days from 0001-01-01, that day being 1
RECURSIVE DaysBeforeMonth(_, _)
DaysBeforeMonth(y, m) == IF m = 1 THEN 0 ELSE DaysBeforeMonth(y, m - 1) + DaysInMonth(y, m - 1)

toordinal(y, m, d) ==
    365 * (y - 1) + (y - 1) \div 4 - (y - 1) \div 100 + (y - 1) \div 400
    + DaysBeforeMonth(y, m) + d

\* date.weekday(): Monday is 0, Sunday is 6
weekday_of(y, m, d) == (toordinal(y, m, d) + 6) % 7

\* Mutant of get_nth_weekday: the offset is taken from the weekday of the
\* first day counted from Sunday (isoweekday() % 7) and not from Monday
get_nth_weekday_from_sunday(year, month, weekday, nth) ==
    IF year \notin 1..9999 \/ ~ValidDate(year, month, 1) THEN None
    ELSE LET first_dow == (weekday_of(year, month, 1) + 1) % 7
             offset == (weekday - first_dow) % 7
             day_num == 1 + offset + 7 * (nth - 1)
         IN  IF ValidDate(year, month, day_num) THEN MkDate(year, month, day_num) ELSE None

\* get_nth_weekday: None when date(year, month, 1) or date(year, month,
\* day_num) raises ValueError
get_nth_weekday(year, month, weekday, nth) ==
    IF year \notin 1..9999 \/ ~ValidDate(year, month, 1) THEN None
    ELSE LET first_dow == weekday_of(year, month, 1)
             offset == (weekday - first_dow) % 7
             day_num == 1 + offset + 7 * (nth - 1)
         IN  IF ValidDate(year, month, day_num) THEN MkDate(year, month, day_num) ELSE None

ordinal_map == << <<"f","i","r","s","t">>, <<"s","e","c","o","n","d">>, <<"t","h","i","r","d">>, <<"f","o","u","r","t","h">> >>

\* weekday_map: the weekday of a name is its index less one
weekday_map ==
    << <<"m","o","n","d","a","y">>,
       <<"t","u","e","s","d","a","y">>,
       <<"w","e","d","n","e","s","d","a","y">>,
       <<"t","h","u","r","s","d","a","y">>,
       <<"f","r","i","d","a","y">>,
       <<"s","a","t","u","r","d","a","y">>,
       <<"s","u","n","d","a","y">> >>

IndexIn(table, w) ==
    IF \E i \in DOMAIN table : table[i] = w THEN CHOOSE i \in DOMAIN table : table[i] = w ELSE 0

\* The longest prefix of w made of letters
RECURSIVE LetterPrefix(_)
LetterPrefix(w) ==
    IF w # <<>> /\ IsLetter(Head(w)) THEN <<Head(w)>> \o LetterPrefix(Tail(w)) ELSE <<>>

\* The year the pattern has no explicit year for
DEFAULT_YEAR == 2025

\* parse_nth_weekday_pattern.  The pattern, searched ignoring case, is
\*   \b(first|second|third|fourth)\s+(monday|..|sunday)\s+(?:in|of)\s+
\*   ([A-Za-z]+)(?:\s+(\d{4}))?\b
\* and only its first match is used: an ordinal that ends a word after a
\* word boundary, the weekday, "in" or "of", the letters the next word
\* begins with (the month, ending at a word boundary), and the four digits
\* that begin the word after it, if they end at a word boundary.  The value
\* is <<date, date>>, or <<>> for None.
parse_nth_weekday_pattern(raw_text) ==
    LET OrdinalOf(w) ==
            IF \E o \in DOMAIN ordinal_map :
                  /\ EndsWith(lower(w), ordinal_map[o])
                  /\ Len(w) > Len(ordinal_map[o]) => ~IsWordChar(w[Len(w) - Len(ordinal_map[o])])
            THEN CHOOSE o \in DOMAIN ordinal_map :
                  /\ EndsWith(lower(w), ordinal_map[o])
                  /\ Len(w) > Len(ordinal_map[o]) => ~IsWordChar(w[Len(w) - Len(ordinal_map[o])])
            ELSE 0
        AtBoundary(w, n) == n >= 1 /\ (Len(w) > n => ~IsWordChar(w[n + 1]))
        YearOfWord(w) ==
            IF Len(w) >= 4 /\ IsNumber(SubSeq(w, 1, 4), 4, 4) /\ AtBoundary(w, 4)
            THEN int(SubSeq(w, 1, 4)) ELSE DEFAULT_YEAR
        Found(w) ==
            LET hits == {i \in 1..(Len(w) - 3) :
                            /\ OrdinalOf(w[i]) # 0
                            /\ IndexIn(weekday_map, lower(w[i + 1])) # 0
                            /\ lower(w[i + 2]) \in {<<"i", "n">>, <<"o", "f">>}
                            /\ AtBoundary(w[i + 3], Len(LetterPrefix(w[i + 3])))}
                First(i) ==
                    LET nth == OrdinalOf(w[i])
                        wday == IndexIn(weekday_map, lower(w[i + 1])) - 1
                        month_str == LetterPrefix(w[i + 3])
                        month_num == full_month(month_str)
                        year == IF Len(month_str) = Len(w[i + 3]) /\ i + 4 <= Len(w)
                                THEN YearOfWord(w[i + 4]) ELSE DEFAULT_YEAR
                    IN  IF month_num = 0 \/ get_nth_weekday(year, month_num, wday, nth) = None
                        THEN <<>>
                        ELSE << get_nth_weekday(year, month_num, wday, nth),
                                get_nth_weekday(year, month_num, wday, nth) >>
            IN  IF hits = {} THEN <<>>
                ELSE First(CHOOSE i \in hits : \A j \in hits : i <= j)
    IN  At(Found, Words(raw_text))

(***************************************************************************)
(* Date texts: parse_date_range                                            *)
(***************************************************************************)
\* The pieces of the regular expressions, matched from position p of s: each
\* gives the position after the match, or 0 when there is none (and 0 when p
\* is 0, so that pieces chain).
Letters == Range(UpperChars) \cup Range(LowerChars)

Spaces == {" "}

\* class*: the position after the longest run of class characters from p
RECURSIVE Skip(_, _, _)
Skip(s, p, class) ==
    IF p = 0 THEN 0
    ELSE IF p <= Len(s) /\ s[p] \in class THEN Skip(s, p + 1, class) ELSE p

\* class+
Plus(s, p, class) ==
    IF p = 0 \/ p > Len(s) THEN 0 ELSE IF s[p] \in class THEN Skip(s, p, class) ELSE 0

\* a literal text
Lit(s, p, word) ==
    IF p # 0 /\ p + Len(word) - 1 <= Len(s) /\ SubSeq(s, p, p + Len(word) - 1) = word
    THEN p + Len(word) ELSE 0

\* \d{1,2} before a character that is not a digit
Digits12(s, p) ==
    IF Plus(s, p, Digits) # 0 /\ Plus(s, p, Digits) - p <= 2 THEN Plus(s, p, Digits) ELSE 0

\* \d{4}
Digits4(s, p) ==
    IF p # 0 /\ p + 3 <= Len(s) /\ \A i \in p..(p + 3) : s[i] \in Digits THEN p + 4 ELSE 0

\* [A-Za-z]+\s+\d{1,2},\s*\d{4}
CommaDate(s, p) ==
    Digits4(s, Skip(s, Lit(s, Digits12(s, Plus(s, Plus(s, p, Letters), Spaces)), <<",">>), Spaces))

\* [A-Za-z]+\s+\d{1,2}(?:,\s*|\s+)\d{4}
LooseDate(s, p) ==
    LET day == Digits12(s, Plus(s, Plus(s, p, Letters), Spaces))
    IN  IF Lit(s, day, <<",">>) # 0 THEN Digits4(s, Skip(s, Lit(s, day, <<",">>), Spaces))
        ELSE Digits4(s, Plus(s, day, Spaces))

\* on\s+ followed by a CommaDate: <<where the date begins, where it ends>>
OnDate(s, p) ==
    LET from == Plus(s, Lit(s, p, <<"o", "n">>), Spaces)
    IN  IF CommaDate(s, from) = 0 THEN <<>> ELSE <<from, CommaDate(s, from)>>

Largest(S) == CHOOSE x \in S : \A y \in S : y <= x

Smallest(S) == CHOOSE x \in S : \A y \in S : x <= y

\* lines 179-188: [Bb]egins.*on\s+(DATE).*ends.*on\s+(DATE), every .* taking
\* as much as it can: the first date is the last one after "on" that still
\* has "ends" and a date after "on" behind it, the second is the last of
\* those.  The value is <<start_str, end_str>>, or <<>> without a match.
begins_ends_match(s) ==
    LET Begins == {p \in DOMAIN s : Lit(s, p, <<"B","e","g","i","n","s">>) # 0
                                    \/ Lit(s, p, <<"b","e","g","i","n","s">>) # 0}
        Ends == {p \in DOMAIN s : Lit(s, p, <<"e","n","d","s">>) # 0}
        OnDates == {p \in DOMAIN s : OnDate(s, p) # <<>>}
        Search(sets) ==
            LET Second(p1) ==
                    {p2 \in sets[3] : \E q \in sets[2] : OnDate(s, p1)[2] <= q /\ q + 4 <= p2}
                First == {p1 \in sets[3] : /\ \E b \in sets[1] : b + 6 <= p1
                                           /\ Second(p1) # {}}
                Groups(p1) ==
                    LET d1 == OnDate(s, p1)
                        d2 == OnDate(s, Largest(Second(p1)))
                    IN  << SubSeq(s, d1[1], d1[2] - 1), SubSeq(s, d2[1], d2[2] - 1) >>
            IN  IF First = {} THEN <<>> ELSE Groups(Largest(First))
    IN  At(Search, <<Begins, Ends, OnDates>>)

\* lines 191-203: the first match of ([A-Za-z]+)\s+(\d{1,2}),\s*(\d{4}); its
\* month is looked up among the full month names.  The value is the date,
\* or None without a match or with a KeyError or ValueError.
simple_date(s) ==
    LET hits == {p \in DOMAIN s : CommaDate(s, p) # 0}
        Parsed(p) ==
            LET month_end == Plus(s, p, Letters)
                day_from  == Plus(s, month_end, Spaces)
                day_end   == Digits12(s, day_from)
                year_end  == CommaDate(s, p)
                month_num == full_month(SubSeq(s, p, month_end - 1))
                day       == int(SubSeq(s, day_from, day_end - 1))
                year      == int(SubSeq(s, year_end - 4, year_end - 1))
            IN  IF month_num # 0 /\ year \in 1..9999 /\ ValidDate(year, month_num, day)
                THEN MkDate(year, month_num, day) ELSE None
        First(h) == IF h = {} THEN None ELSE Parsed(Smallest(h))
    IN  At(First, hits)

\* lines 206-215, read at the indentation of the lines around them:
\*   [Bb]egins\s+(?:at\s+sunset\s+)?(?:on\s+)?(DATE)
\*   (?:\s+and\s+ends\s+(?:the\s+evening\s+of\s+|at\s+nightfall\s+on\s+|on\s+)?(DATE))
\* where DATE may have white space in place of its comma.  The optional
\* parts are tried present before absent and the alternatives from left to
\* right; the first "begins" with a match is the one used.  The value is
\* <<start_str, end_str>>, or <<>> without a match.
sunset_match(s) ==
    LET Word(p, w) == Plus(s, Lit(s, p, w), Spaces)
        AtSunset(p) == Word(Word(p, <<"a","t">>), <<"s","u","n","s","e","t">>)
        On(p) == Word(p, <<"o","n">>)
        Starts(b) ==
            LET p0 == Plus(s, b + 6, Spaces)
            IN  << On(AtSunset(p0)), AtSunset(p0), On(p0), p0 >>
        AndEnds(e) ==
            Word(Word(Plus(s, e, Spaces), <<"a","n","d">>), <<"e","n","d","s">>)
        EndFroms(t) ==
            << Word(Word(Word(t, <<"t","h","e">>), <<"e","v","e","n","i","n","g">>), <<"o","f">>),
               Word(Word(Word(t, <<"a","t">>), <<"n","i","g","h","t","f","a","l","l">>),
                    <<"o","n">>),
               On(t), t >>
        \* <<start of the first date, start of the second>> for the choices
        \* <<i, j>> of optional parts, or <<>>
        Try(b, i, j) ==
            LET st == Starts(b)[i]
                en == EndFroms(AndEnds(LooseDate(s, st)))[j]
            IN  IF LooseDate(s, en) = 0 THEN <<>> ELSE <<st, en>>
        Choices == {<<i, j>> : i \in 1..4, j \in 1..4}
        Before(c, d) == c[1] < d[1] \/ (c[1] = d[1] /\ c[2] <= d[2])
        MatchAt(b) ==
            LET ok == {c \in Choices : Try(b, c[1], c[2]) # <<>>}
                Groups(m) == << SubSeq(s, m[1], LooseDate(s, m[1]) - 1),
                                SubSeq(s, m[2], LooseDate(s, m[2]) - 1) >>
                Pick(o) ==
                    LET c == CHOOSE c \in o : \A d \in o : Before(c, d)
                    IN  At(Groups, Try(b, c[1], c[2]))
            IN  IF ok = {} THEN <<>> ELSE At(Pick, ok)
        Begins == {p \in DOMAIN s : /\ \/ Lit(s, p, <<"B","e","g","i","n","s">>) # 0
                                       \/ Lit(s, p, <<"b","e","g","i","n","s">>) # 0
                                    /\ MatchAt(p) # <<>>}
        First(bs) == IF bs = {} THEN <<>> ELSE MatchAt(Smallest(bs))
    IN  At(First, Begins)

\* parse_date_range: each rule reads the cleaned text, and the value is what
\* the first rule in the order of the source reads: <<start, end>>, or
\* <<None, None>> when no rule applies.
parse_date_range(raw_text) ==
    LET Both(groups) ==
            IF groups = <<>> THEN <<None, None>>
            ELSE <<parse_month_day_year(groups[1]), parse_month_day_year(groups[2])>>
        \* r is <<whole, nth, range, single, sunset>>, what each rule reads
        First(r) ==
            IF r[1] # None THEN <<r[1], r[1]>>
            ELSE IF r[2] # <<>> THEN r[2]
            ELSE IF r[3][1] # None /\ r[3][2] # None THEN r[3]
            ELSE IF r[4] # None THEN <<r[4], r[4]>>
            ELSE IF r[5][1] # None /\ r[5][2] # None THEN r[5]
            ELSE <<None, None>>
        Rules(cleaned_text) ==
            At(First, << parse_month_day_year(cleaned_text),
                         parse_nth_weekday_pattern(cleaned_text),
                         At(Both, begins_ends_match(cleaned_text)),
                         simple_date(cleaned_text),
                         At(Both, sunset_match(cleaned_text)) >>)
    IN  At(Rules, strip(RemoveChar(raw_text, ".")))

(***************************************************************************)
(* The functions taken alone: the inputs they are called on                *)
(***************************************************************************)
\* The decimal digits of a natural number
RECURSIVE Decimal(_)
Decimal(n) ==
    IF n < 10 THEN <<(<<"0","1","2","3","4","5","6","7","8","9">>)[n + 1]>>
    ELSE Decimal(n \div 10) \o Decimal(n % 10)

\* A word with its first letter in upper case
Capitalized(w) ==
    IF w = <<>> THEN w
    ELSE <<UpperChars[CHOOSE i \in DOMAIN LowerChars : LowerChars[i] = Head(w)]>> \o Tail(w)

\* The ways the pages write a month: %B "March", %b "Mar", and "Mar."
MonthForms == {"%B", "%b", "%b."}

MonthAs(form, m) ==
    IF form = "%B" THEN Capitalized(MONTH_NAMES[m])
    ELSE IF form = "%b" THEN Capitalized(SubSeq(MONTH_NAMES[m], 1, 3))
    ELSE Capitalized(SubSeq(MONTH_NAMES[m], 1, 3)) \o <<".">>

\* An explicit date as the pages write it: "Mar. 1, 2025"
DateAs(form, d) ==
    MonthAs(form, MonthOf(d)) \o <<" ">> \o Decimal(DayOf(d)) \o <<",", " ">>
        \o Decimal(YearOf(d))

\* The "Begins ... D1 ... ends ... D2" phrasings of the source pages and of
\* the comments of parse_date_range
Phrasings ==
    << << <<"B","e","g","i","n","s"," ","a","t"," ","s","u","n","s","e","t"," ","o","n"," ">>,
          <<" ","a","n","d"," ","e","n","d","s"," ","t","h","e"," ","e","v","e","n","i","n","g",
            " ","o","f"," ">> >>,
       << <<"B","e","g","i","n","s"," ","o","n"," ">>,
          <<" ","a","n","d"," ","e","n","d","s"," ","o","n"," ">> >>,
       << <<"B","e","g","i","n","s"," ","a","t"," ","s","u","n","s","e","t"," ","o","n"," ">>,
          <<" ","a","n","d"," ","e","n","d","s"," ","a","t"," ","n","i","g","h","t","f","a","l",
            "l"," ","o","n"," ">> >> >>

\* The dates the texts are written with
TextDates == {20240229, 20250301, 20250330, 20250512}

\* The date texts parse_date_range is applied to: spans and single dates
DateTexts ==
    {t \in [kind : {"span"}, phrasing : DOMAIN Phrasings, form : MonthForms,
            d1 : TextDates, d2 : TextDates] : t.d1 <= t.d2}
    \cup {[kind |-> "single", phrasing |-> 0, form |-> f, d1 |-> a, d2 |-> a] :
            f \in MonthForms, a \in TextDates}

\* The text of an input of DateTexts
TextOf(t) ==
    IF t.kind = "span"
    THEN Phrasings[t.phrasing][1] \o DateAs(t.form, t.d1)
            \o Phrasings[t.phrasing][2] \o DateAs(t.form, t.d2)
    ELSE DateAs(t.form, t.d1)

(***************************************************************************)
(* parse_date_range called on a date text                                  *)
(***************************************************************************)
NewCall(fn, arg) == [fn |-> fn, arg |-> arg, done |-> FALSE, res |-> <<>>]

Returned(fn) == call.fn = fn /\ call.done

ParseDateRange ==
    /\ call.fn = "parse_date_range"
    /\ ~call.done
    /\ call' = [call EXCEPT !.done = TRUE, !.res = parse_date_range(TextOf(call.arg))]
    /\ UNCHANGED <<events, duOnly, scrOnly, gem>>

\* C13: parse_date_range applied to a text in the "Begins ... D1 ... ends ...
\* D2" phrasing, D1 and D2 valid explicit dates written with abbreviated or
\* with full month names, returns (D1, D2): the rule for a single explicit
\* date never answers (D1, D1) in place of the span.
C13_SpanIsNotPreempted ==
    (Returned("parse_date_range") /\ call.arg.kind = "span") =>
        call.res = <<call.arg.d1, call.arg.d2>>

(***************************************************************************)
(* get_nth_weekday and parse_nth_weekday_pattern called alone              *)
(***************************************************************************)
\* The years the n-th weekdays are asked of: a leap year, the default year,
\* and a century year that is not a leap year
NthYears == {2024, 2025, 2100}

NthInputs == [year : NthYears, month : 1..12, weekday : 0..6, nth : 1..4]

\* The texts of the pattern: "Third Monday in January 2025", "Fourth
\* Saturday of November"; year 0 stands for a text that names no year
NthTexts == [year : {0, 2024}, month : 1..12, weekday : 0..6, nth : 1..4,
             word : {<<"i","n">>, <<"o","f">>}]

NthTextOf(t) ==
    Capitalized(ordinal_map[t.nth]) \o <<" ">> \o Capitalized(weekday_map[t.weekday + 1])
        \o <<" ">> \o t.word \o <<" ">> \o Capitalized(MONTH_NAMES[t.month])
        \o (IF t.year = 0 THEN <<>> ELSE <<" ">> \o Decimal(t.year))

GetNthWeekday ==
    /\ call.fn = "get_nth_weekday"
    /\ ~call.done
    /\ call' = [call EXCEPT !.done = TRUE,
                            !.res = get_nth_weekday(call.arg.year, call.arg.month,
                                                    call.arg.weekday, call.arg.nth)]
    /\ UNCHANGED <<events, duOnly, scrOnly, gem>>

ParseNthWeekdayPattern ==
    /\ call.fn = "parse_nth_weekday_pattern"
    /\ ~call.done
    /\ call' = [call EXCEPT !.done = TRUE,
                            !.res = parse_nth_weekday_pattern(NthTextOf(call.arg))]
    /\ UNCHANGED <<events, duOnly, scrOnly, gem>>

\* The n-th day of the month that falls on the weekday, found by counting
\* the days of the month one by one
NthOccurrence(year, month, weekday, nth) ==
    LET days == {d \in 1..DaysInMonth(year, month) : weekday_of(year, month, d) = weekday}
    IN  MkDate(year, month,
               CHOOSE d \in days : Cardinality({e \in days : e <= d}) = nth)

\* C14: for every year, month in 1..12, weekday and n in 1..4,
\* get_nth_weekday returns the day of that month that falls on the weekday
\* for the n-th time, which is day 1 + ((weekday - weekday of the 1st) mod 7)
\* + 7 * (n - 1); parse_nth_weekday_pattern returns that day as a single-day
\* interval, of the year of the text or of the default year when the text
\* names none.
C14_NthWeekday ==
    /\ Returned("get_nth_weekday") =>
          LET a == call.arg
          IN  /\ call.res = NthOccurrence(a.year, a.month, a.weekday, a.nth)
              /\ DayOf(call.res) =
                    1 + ((a.weekday - weekday_of(a.year, a.month, 1) + 7) % 7) + 7 * (a.nth - 1)
    /\ Returned("parse_nth_weekday_pattern") =>
          LET a == call.arg
              d == NthOccurrence(IF a.year = 0 THEN DEFAULT_YEAR ELSE a.year,
                                 a.month, a.weekday, a.nth)
          IN  call.res = <<d, d>>

\* "Third Monday in January 2025" has been parsed, and "Third Monday in
\* January" with the default year: both give 2025-01-20
C14_Witness ==
    /\ Returned("parse_nth_weekday_pattern")
    /\ call.arg.nth = 3 /\ call.arg.weekday = 0 /\ call.arg.month = 1 /\ call.arg.year = 0
    /\ call.res = <<20250120, 20250120>>

(***************************************************************************)
(* Month-long observances of Canada.ca and Ontario.ca                      *)
(***************************************************************************)
\* date(y, m, d) - timedelta(days): the date whose ordinal is that much less
minus_timedelta(y, m, d, days) ==
    LET n == toordinal(y, m, d) - days
    IN  CHOOSE dt \in {MkDate(yy, mm, dd) : yy \in (y - 1)..y, mm \in 1..12, dd \in 1..31} :
            /\ ValidDate(YearOf(dt), MonthOf(dt), DayOf(dt))
            /\ toordinal(YearOf(dt), MonthOf(dt), DayOf(dt)) = n

\* Mutant of month_long: the day is not taken off, the interval ends on the
\* first day of the month that follows
month_long_to_next_first(year, month_num) ==
    << MkDate(year, month_num, 1),
       IF month_num = 12 THEN MkDate(year + 1, 1, 1)
       ELSE MkDate(year, month_num + 1, 1) >>

\* The interval of an item with 'Month' in its text and no date, under the
\* header of month month_num, year standing for current_year
\* (scrape_canada_commemorative, and the same lines with current_month in
\* scrape_ontario_commemorative)
month_long(year, month_num) ==
    << MkDate(year, month_num, 1),
       IF month_num = 12 THEN minus_timedelta(year + 1, 1, 1, 1)
       ELSE minus_timedelta(year, month_num + 1, 1, 1) >>

\* The years the computation is checked for: the year of the scrapers, leap
\* years and a century year that is not one
MonthLongYears == {2000, 2023, 2024, 2025, 2100}

MonthLongInputs == [year : MonthLongYears, month_num : 1..12]

MonthLong ==
    /\ call.fn = "month_long"
    /\ ~call.done
    /\ call' = [call EXCEPT !.done = TRUE,
                            !.res = month_long(call.arg.year, call.arg.month_num)]
    /\ UNCHANGED <<events, duOnly, scrOnly, gem>>

\* The last day of each month of a year that is not a leap year
LastDays == <<31, 28, 31, 30, 31, 30, 31, 31, 30, 31, 30, 31>>

\* C15: a month-long observance under month M of year Y gets the interval
\* from day 1 of M to the last calendar day of M (29 February in a leap year,
\* 28 February otherwise, 31 December for December); the end is never in the
\* month or the year that follows.
C15_MonthLongInterval ==
    Returned("month_long") =>
        LET Y == call.arg.year
            M == call.arg.month_num
            leap == (Y % 4 = 0 /\ Y % 100 # 0) \/ Y % 400 = 0
        IN  /\ call.res[1] = Y * 10000 + M * 100 + 1
            /\ call.res[2] = Y * 10000 + M * 100
                                + (IF M = 2 /\ leap THEN 29 ELSE LastDays[M])
            /\ MonthOf(call.res[2]) = M
            /\ YearOf(call.res[2]) = Y

\* February of a leap year and December have been worked out
C15_Witness ==
    /\ Returned("month_long")
    /\ \/ call.arg = [year |-> 2024, month_num |-> 2] /\ call.res[2] = 20240229
       \/ call.arg = [year |-> 2025, month_num |-> 12] /\ call.res[2] = 20251231

(***************************************************************************)
(* scrape_canada_commemorative: one list item                              *)
(***************************************************************************)
WordChars ==
    Letters \cup Digits \cup {"_", "okina"}
        \cup {Accented[i][1] : i \in DOMAIN Accented}
        \cup {Accented[i][2] : i \in DOMAIN Accented}

\* datetime.strptime(s, "%B %d %Y").date(): a full month name, a day of one
\* or two digits and a year of four, white space between them; None stands
\* for the ValueError
strptime_B_d_Y(s) ==
    LET w == Words(s)
    IN  IF /\ Len(w) = 3
           /\ full_month(w[1]) # 0
           /\ IsNumber(w[2], 1, 2)
           /\ IsNumber(w[3], 4, 4)
           /\ int(w[3]) >= 1
           /\ ValidDate(int(w[3]), full_month(w[1]), int(w[2]))
        THEN MkDate(int(w[3]), full_month(w[1]), int(w[2]))
        ELSE None

\* re.search(r'\d+', text).group(): the first run of digits, <<>> for no
\* match (the AttributeError of .group() on None)
first_digits(text) ==
    IF \A p \in DOMAIN text : text[p] \notin Digits THEN <<>>
    ELSE LET p == Smallest({q \in DOMAIN text : text[q] \in Digits})
         IN  SubSeq(text, p, Skip(text, p, Digits) - 1)

\* week_patterns, in the order of the dictionary: <<pattern, start_day, end_day>>
week_patterns ==
    << <<<<"s","e","c","o","n","d"," ","w","e","d","n","e","s","d","a","y">>, 4, 10>>,
       <<<<"s","e","c","o","n","d"," ","w","e","e","k">>, 8, 14>>,
       <<<<"t","h","i","r","d"," ","w","e","e","k">>, 15, 21>>,
       <<<<"f","o","u","r","t","h"," ","w","e","e","k">>, 22, 28>>,
       <<<<"f","o","u","r","t","h"," ","s","a","t","u","r","d","a","y">>, 22, 22>> >>

\* re.split(r'\s+(?:to|-)\s+', text) for a text whose words are separated by
\* single spaces: the text is cut at every word "to" or "-" that has a word
\* before it and one after it.  The value is <<start_str, end_str>> when
\* there are exactly two parts, <<>> otherwise.
split_to(text) ==
    LET w == Words(text)
        seps == {i \in DOMAIN w : w[i] \in {<<"t","o">>, <<"-">>} /\ 1 < i /\ i < Len(w)}
        RECURSIVE Join(_, _, _)
        Join(ws, from, to) ==
            IF from > to THEN <<>>
            ELSE IF from = to THEN ws[from]
            ELSE ws[from] \o <<" ">> \o Join(ws, from + 1, to)
    IN  IF Cardinality(seps) = 1
        THEN LET i == CHOOSE x \in seps : TRUE
             IN  <<Join(w, 1, i - 1), Join(w, i + 1, Len(w))>>
        ELSE <<>>

\* parse_date_range_inner(text, month) of scrape_canada_commemorative; month
\* is 0 for None
parse_date_range_inner(text, month) ==
    LET matching == {i \in DOMAIN week_patterns : IsSubstring(week_patterns[i][1], lower(text))}
        parts == split_to(text)
        ranged == IF (IsSubstring(<<" ","t","o"," ">>, text) \/ IsSubstring(<<" ","-"," ">>, text)) /\ parts # <<>>
                  THEN <<strptime_B_d_Y(parts[1] \o <<" ">> \o Decimal(current_year)),
                         strptime_B_d_Y(parts[2] \o <<" ">> \o Decimal(current_year))>>
                  ELSE <<None, None>>
    IN  IF matching # {} /\ month # 0
        THEN LET i == Smallest(matching)
             IN  <<MkDate(current_year, month, week_patterns[i][2]),
                   MkDate(current_year, month, week_patterns[i][3])>>
        ELSE IF ranged[1] # None /\ ranged[2] # None THEN ranged
        ELSE IF month # 0
        THEN IF first_digits(text) # <<>> /\ ValidDate(current_year, month, int(first_digits(text)))
             THEN <<MkDate(current_year, month, int(first_digits(text))),
                    MkDate(current_year, month, int(first_digits(text)))>>
             ELSE <<None, None>>
        ELSE LET parsed == strptime_B_d_Y(text \o <<" ">> \o Decimal(current_year))
             IN  <<parsed, parsed>>

\* re.match(r'^[A-Za-z]+ \d{1,2}', text)
starts_with_date(text) ==
    LET p == Lit(text, Plus(text, 1, Letters), <<" ">>)
    IN  p # 0 /\ p <= Len(text) /\ text[p] \in Digits

\* re.match(r'^([A-Za-z]+ \d+|\w+ week|\w+ \w+ of [A-Za-z]+)(.*)', text): the
\* position after group 1, the alternatives tried in this order; 0 for no
\* match
date_match(text) ==
    LET alt1 == Plus(text, Lit(text, Plus(text, 1, Letters), <<" ">>), Digits)
        alt2 == Lit(text, Plus(text, 1, WordChars), <<" ","w","e","e","k">>)
        alt3 == Plus(text, Lit(text, Plus(text, Lit(text, Plus(text, 1, WordChars), <<" ">>),
                                          WordChars), <<" ","o","f"," ">>), Letters)
    IN  IF alt1 # 0 THEN alt1 ELSE IF alt2 # 0 THEN alt2 ELSE alt3

\* name_str.strip(' -')
RECURSIVE strip_chars(_, _)
strip_chars(s, chars) ==
    IF s # <<>> /\ Head(s) \in chars THEN strip_chars(Tail(s), chars)
    ELSE IF s # <<>> /\ s[Len(s)] \in chars THEN strip_chars(SubSeq(s, 1, Len(s) - 1), chars)
    ELSE s

NotStored == [kind |-> "", exact_name |-> <<>>, start_dt |-> None, end_dt |-> None]

\* The body of "for item in month_list.find_all('li', ...)" for one item with
\* text under the header of month month_num: what is stored in the
\* dictionary (under exact_name and its normalisation), NotStored when
\* nothing is
canada_item(text, month_num) ==
    IF text = <<>> THEN NotStored
    ELSE IF IsSubstring(<<"M","o","n","t","h">>, text) /\ ~starts_with_date(text)
    THEN [kind |-> "month", exact_name |-> strip(text),
          start_dt |-> month_long(current_year, month_num)[1],
          end_dt |-> month_long(current_year, month_num)[2]]
    ELSE IF date_match(text) = 0 THEN NotStored
    ELSE LET p == date_match(text)
             date_str == SubSeq(text, 1, p - 1)
             name_str == strip(strip_chars(SubSeq(text, p, Len(text)), {" ", "-"}))
             dates == parse_date_range_inner(date_str, month_num)
         IN  IF dates[1] # None /\ dates[2] # None /\ name_str # <<>>
             THEN [kind |-> "dated", exact_name |-> name_str,
                   start_dt |-> dates[1], end_dt |-> dates[2]]
             ELSE NotStored

(***************************************************************************)
(* scrape_ontario_commemorative: one list item                             *)
(***************************************************************************)
\* re.sub(r'\s*\[.*?\]', '', text), scanning from index i: a bracketed group
\* goes together with the white space before it
RECURSIVE SubBracketGroups(_, _)
SubBracketGroups(s, i) ==
    IF i > Len(s) THEN <<>>
    ELSE LET open == Skip(s, i, Spaces)
         IN  IF open <= Len(s) /\ s[open] = "[" /\ ClosingAt(s, open, "]") # 0
             THEN SubBracketGroups(s, ClosingAt(s, open, "]") + 1)
             ELSE <<s[i]>> \o SubBracketGroups(s, i + 1)

\* re.split(r'\s+[-–]\s+', text)[0]: the text before the first hyphen or en
\* dash that has white space on both sides
before_dash(text) ==
    LET At1(p) == \E d \in {<<"-">>, <<"--">>} : Plus(text, Lit(text, Plus(text, p, Spaces), d), Spaces) # 0
        starts == {p \in DOMAIN text : At1(p)}
    IN  IF starts = {} THEN text ELSE SubSeq(text, 1, Smallest(starts) - 1)

\* ([A-Za-z]+\s+\d+) matched from position p: the position after it, 0 for
\* no match
month_day_at(text, p) == Plus(text, Plus(text, Plus(text, p, Letters), Spaces), Digits)

\* re.search(r'([A-Za-z]+\s+\d+)\s*[-to]+\s*([A-Za-z]+\s+\d+)', text): the two
\* groups of the leftmost match, the run of "-", "t" and "o" as long as the
\* second group allows; <<>> for no match
range_match(text) ==
    LET Runs(p) ==
            LET q == Skip(text, month_day_at(text, p), Spaces)
            IN  {k \in 1..Len(text) :
                    /\ q # 0
                    /\ q + k - 1 <= Len(text)
                    /\ \A j \in q..(q + k - 1) : text[j] \in {"-", "t", "o"}
                    /\ month_day_at(text, Skip(text, q + k, Spaces)) # 0}
        starts == {p \in DOMAIN text : Runs(p) # {}}
    IN  IF starts = {} THEN <<>>
        ELSE LET p == Smallest(starts)
                 q == Skip(text, month_day_at(text, p), Spaces)
                 r == Skip(text, q + Largest(Runs(p)), Spaces)
             IN  <<SubSeq(text, p, month_day_at(text, p) - 1),
                   SubSeq(text, r, month_day_at(text, r) - 1)>>

\* re.search(r'([A-Za-z]+\s+\d+)', text): the group of the leftmost match,
\* <<>> for no match
single_match(text) ==
    LET starts == {p \in DOMAIN text : month_day_at(text, p) # 0}
    IN  IF starts = {} THEN <<>>
        ELSE SubSeq(text, Smallest(starts), month_day_at(text, Smallest(starts)) - 1)

\* The body of "for item in section.find_all('li')" for one item with text
\* raw_text under the header of month current_month: what is stored in the
\* dictionary (under exact_name and its normalisation), NotStored when
\* nothing is
ontario_item(raw_text, current_month) ==
    LET text == SubBracketGroups(raw_text, 1)
        exact_name == RemoveParenGroups(strip(before_dash(text)))
        has_digit == \E p \in DOMAIN text : text[p] \in Digits
        third == get_nth_weekday(current_year, current_month, 0, 3)
        with_year(s) == s \o <<" ">> \o Decimal(current_year)
        found ==
            IF IsSubstring(<<"M","o","n","t","h">>, text) /\ ~has_digit
            THEN <<"month", month_long(current_year, current_month)[1],
                   month_long(current_year, current_month)[2]>>
            ELSE IF IsSubstring(<<"t","h","i","r","d"," ","m","o","n","d","a","y">>, lower(text))
            THEN <<"nth", third, third>>
            ELSE IF has_digit
            THEN IF range_match(text) # <<>>
                 THEN IF strptime_B_d_Y(with_year(range_match(text)[1])) = None
                      THEN <<"dated", None, None>>
                      ELSE <<"dated", strptime_B_d_Y(with_year(range_match(text)[1])),
                             strptime_B_d_Y(with_year(range_match(text)[2]))>>
                 ELSE IF single_match(text) # <<>>
                 THEN <<"dated", strptime_B_d_Y(with_year(single_match(text))),
                        strptime_B_d_Y(with_year(single_match(text)))>>
                 ELSE <<"dated", None, None>>
            ELSE IF IsSubstring(<<"D","a","y">>, text) \/ IsSubstring(<<"W","e","e","k">>, text)
            THEN <<"month", month_long(current_year, current_month)[1],
                   month_long(current_year, current_month)[2]>>
            ELSE <<"", None, None>>
    IN  IF raw_text = <<>> THEN NotStored
        ELSE IF found[2] # None /\ found[3] # None /\ exact_name # <<>>
        THEN [kind |-> found[1], exact_name |-> exact_name,
              start_dt |-> found[2], end_dt |-> found[3]]
        ELSE NotStored

(***************************************************************************)
(* One list item of Canada.ca or of Ontario.ca                             *)
(***************************************************************************)
\* Items that name an n-th weekday: "Second Wednesday of May - Remembrance"
NthItems == [kind : {"nth"}, nth : {2, 3, 4}, weekday : {0, 2, 5}, month_num : 1..12]

\* Items as the pages write them: month-long observances without a digit,
\* with a year and with a year in parentheses, a dated day, a week and a
\* dated item that has "Month" in its name
ItemTexts ==
    {<<"B","l","a","c","k"," ","H","i","s","t","o","r","y"," ","M","o","n","t","h">>,
     <<"B","l","a","c","k"," ","H","i","s","t","o","r","y"," ","M","o","n","t","h"," ","2","0","2","5">>,
     <<"A","s","i","a","n"," ","H","e","r","i","t","a","g","e"," ","M","o","n","t","h"," ","(","s","i","n","c","e"," ","2","0","0","2",")">>,
     <<"F","e","b","r","u","a","r","y"," ","1","5"," ","-"," ","N","a","t","i","o","n","a","l"," ","F","l","a","g"," ","D","a","y">>,
     <<"M","a","y"," ","5"," ","-"," ","M","o","n","t","h"," ","o","f"," ","S","u","n","d","a","y","s">>,
     <<"N","u","r","s","e","s"," ","W","e","e","k">>}

TextItems == [kind : {"text"}, text : ItemTexts, month_num : 1..12]

ItemText(a) ==
    IF a.kind = "text" THEN a.text
    ELSE Capitalized(ordinal_map[a.nth]) \o <<" ">> \o Capitalized(weekday_map[a.weekday + 1])
            \o <<" ","o","f"," ">> \o Capitalized(MONTH_NAMES[a.month_num]) \o <<" ","-"," ","R","e","m","e","m","b","r","a","n","c","e">>

CanadaItem ==
    /\ call.fn = "canada_item"
    /\ ~call.done
    /\ call' = [call EXCEPT !.done = TRUE,
                            !.res = canada_item(ItemText(call.arg), call.arg.month_num)]
    /\ UNCHANGED <<events, duOnly, scrOnly, gem>>

OntarioItem ==
    /\ call.fn = "ontario_item"
    /\ ~call.done
    /\ call' = [call EXCEPT !.done = TRUE,
                            !.res = ontario_item(ItemText(call.arg), call.arg.month_num)]
    /\ UNCHANGED <<events, duOnly, scrOnly, gem>>

\* C24: for a Canada.ca item whose date text names an n-th weekday of the
\* month, the stored interval is a single day, the n-th occurrence of that
\* weekday in the month of the target year as get_nth_weekday computes it.
C24_CanadaNthWeekdayIsTheRealDay ==
    (/\ Returned("canada_item")
     /\ call.arg.kind = "nth"
     /\ call.res # NotStored)
        => /\ call.res.start_dt = call.res.end_dt
           /\ call.res.start_dt = get_nth_weekday(current_year, call.arg.month_num,
                                                  call.arg.weekday, call.arg.nth)

\* C25: a scraper gives an item the span from the first to the last day of
\* the month only when the text of the item contains no digit.
C25_MonthLongOnlyWithoutDigits ==
    (/\ (Returned("canada_item") \/ Returned("ontario_item"))
     /\ call.res.kind = "month")
        => \A p \in DOMAIN ItemText(call.arg) : ItemText(call.arg)[p] \notin Digits

(***************************************************************************)
(* One event looked up in the dictionary of one York page                  *)
(***************************************************************************)
\* Name cells of the York table: a name, a name with its annotation and
\* marker, and cells that hold a marker or an annotation only
YorkNames ==
    {Diwali,
     <<"D","i","w","a","l","i"," ","(","H","i","n","d","u",")","*">>,
     <<"*">>,
     <<"(","H","i","n","d","u",")">>}

YorkPages ==
    {Page(<<[raw_name |-> n, start_dt |-> MkDate(2025, 10, 20),
             end_dt |-> MkDate(2025, 10, 21)]>>) : n \in YorkNames}

\* Event documents: a seeded event, and one whose alternate name is an
\* annotation only
LookedUpEvents ==
    {SeededEvents[1], SeededEvents[2],
     SeedEvent(AshuraAccented, "Islam", "/images/ashura.jpg",
               << <<"(","I","s","l","a","m",")">> >>)}

LookupInputs == [page : YorkPages, event : LookedUpEvents]

\* scrape_york_accommodations on the page, then the lookup of lines
\* 1163-1216 for the event with the other dictionaries empty
LookupAlone ==
    /\ call.fn = "lookup"
    /\ ~call.done
    /\ LET york_dict == scrape(1, call.arg.page)
           ds == [s \in 1..NumSources |-> IF s = 1 THEN york_dict ELSE EmptyDict]
       IN  call' = [call EXCEPT !.done = TRUE,
                                !.res = [york_dict |-> york_dict,
                                         hit |-> Lookup(CandidateKeys(call.arg.event), ds)]]
    /\ UNCHANGED <<events, duOnly, scrOnly, gem>>

\* C17: a name that normalizes to the empty key never matches anything: no
\* source dictionary holds the empty key, and no event is resolved to an
\* interval through a candidate key that is empty.
C17_EmptyKeyNeverMatches ==
    Returned("lookup") =>
        /\ <<>> \notin DOMAIN call.res.york_dict
        /\ call.res.hit.key # 0 =>
              CandidateKeys(call.arg.event)[call.res.hit.key] # <<>>

(***************************************************************************)
(* EventDefinitions.normalize_event_name called alone                      *)
(***************************************************************************)
\* Names as the pages give them: a canonical name, aliases in another case,
\* a misspelling, a name the table does not know, names with white space
\* around them, and a name as near to an alias of Nowruz ("Iranian New
\* Year") as to one of Islamic New Year ("Islamic New Year")
AliasInputs ==
    {Diwali,
     <<"d","e","e","p","a","v","a","l","i">>,
     <<"C","H","I","N","E","S","E"," ","N","E","W"," ","Y","E","A","R">>,
     Diwalli,
     Halloween,
     <<" ">> \o Halloween \o <<" ">>,
     <<" ">> \o Diwali,
     <<"I","r","a","n","m","i","c"," ","N","e","w"," ","Y","e","a","r">>}

AliasResolver ==
    /\ call.fn = "EventDefinitions.normalize_event_name"
    /\ ~call.done
    /\ call' = [call EXCEPT !.done = TRUE,
                            !.res = EventDefinitions_normalize_event_name(call.arg)]
    /\ UNCHANGED <<events, duOnly, scrOnly, gem>>

\* What the resolver is to return for a name: the canonical name of the
\* table entry the name equals ignoring case; else the canonical name that
\* owns the highest score, the first of them in the order of the table, if
\* that score is above the threshold; else unmatched
AliasOf(name, unmatched) ==
    LET Position(main) ==
            CHOOSE k \in DOMAIN ALTERNATE_NAMES : ALTERNATE_NAMES[k].main_name = main
        FirstOf(mains) ==
            CHOOSE m \in mains : \A o \in mains : Position(m) <= Position(o)
        Decide(scores) ==
            LET equal == {FlatAlternates[i].main :
                            i \in {j \in DOMAIN FlatAlternates :
                                      lower(FlatAlternates[j].cand) = lower(name)}}
                top == CHOOSE t \in {sc[2] : sc \in scores} :
                            \A sc \in scores : sc[2] <= t
                owners == {FlatAlternates[sc[1]].main : sc \in {x \in scores : x[2] = top}}
            IN  IF equal # {} THEN FirstOf(equal)
                ELSE IF top > 85 THEN FirstOf(owners)
                ELSE unmatched
    IN  At(Decide, {<<i, fuzz_ratio(lower(name), lower(FlatAlternates[i].cand))>> :
                        i \in DOMAIN FlatAlternates})

\* C18 as stated: the alias resolver returns the canonical name the input
\* equals ignoring case (itself or through an alias); otherwise the canonical
\* name owning the highest fuzzy score over all canonical names and aliases
\* when that score exceeds 85, a tie going to the first canonical name of the
\* table; otherwise the input unchanged.
C18_AliasResolverOnInput ==
    Returned("EventDefinitions.normalize_event_name") =>
        call.res = AliasOf(call.arg, call.arg)

\* C18 amended: the same of the input without the white space around it,
\* which is also what is returned when nothing matches.
C18_AliasResolverOnStrippedInput ==
    Returned("EventDefinitions.normalize_event_name") =>
        call.res = AliasOf(strip(call.arg), strip(call.arg))

\* A tie for the highest score has been decided for the first canonical
\* name of the table
C18_Witness ==
    /\ Returned("EventDefinitions.normalize_event_name")
    /\ call.arg = <<"I","r","a","n","m","i","c"," ","N","e","w"," ","Y","e","a","r">>
    /\ call.res = <<"N","o","w","r","u","z">>
    /\ fuzz_ratio(lower(call.arg), <<"i","r","a","n","i","a","n"," ","n","e","w"," ","y","e","a","r">>)
         = fuzz_ratio(lower(call.arg), <<"i","s","l","a","m","i","c"," ","n","e","w"," ","y","e","a","r">>)

(***************************************************************************)
(* normalize_event_name called alone                                       *)
(***************************************************************************)
SheminiAtzeret == <<"S","h","e","m","i","n","i"," ","A","t","z","e","r","e","t">>

\* Names of the York table with the religion in parentheses and the marker
\* of the footnote: "Shemini Atzeret (Jewish)*"
AnnotatedNames ==
    [name : {SheminiAtzeret, Diwali, AshuraAccented, YawmAshura},
     annotation : {<<"J","e","w","i","s","h">>, <<"H","i","n","d","u">>, <<"I","s","l","a","m">>}]

Annotated(a) == a.name \o <<" ", "(">> \o a.annotation \o <<")", "*">>

\* normalize_event_name of the annotated name and of the name alone, and of
\* the annotated name after strip_parentheses, as update_event_dates calls it
NormalizeEventName ==
    /\ call.fn = "normalize_event_name"
    /\ ~call.done
    /\ call' = [call EXCEPT
                  !.done = TRUE,
                  !.res = [annotated |-> normalize_event_name(Annotated(call.arg)),
                           plain |-> normalize_event_name(call.arg.name),
                           stripped_first |->
                               normalize_event_name(strip_parentheses(Annotated(call.arg)))]]
    /\ UNCHANGED <<events, duOnly, scrOnly, gem>>

\* C19: normalize_event_name drops parenthetical annotations and trailing
\* markers: of a name followed by an annotation in parentheses and an
\* asterisk it gives what it gives of the name alone, "shemini atzeret" for
\* "Shemini Atzeret (Jewish)*".
C19_AnnotationDropped ==
    Returned("normalize_event_name") =>
        /\ call.res.annotated = call.res.plain
        /\ call.arg.name = SheminiAtzeret => call.res.annotated = lower(SheminiAtzeret)

(***************************************************************************)
(* One event of the loop against one York row given with its date text     *)
(***************************************************************************)
\* Date cells of the York table: two that no rule of parse_date_range reads
\* ("TBD", "Oct 20 2025") and one that a rule reads ("Oct. 20, 2025")
DateCells ==
    {<<"T","B","D">>,
     <<"O","c","t"," ","2","0"," ","2","0","2","5">>,
     <<"O","c","t","."," ","2","0",","," ","2","0","2","5">>}

ClassifyInputs ==
    [raw_name : {Diwali, Deepavali, YawmAshura}, raw_date_str : DateCells,
     event : {SeededEvents[1], SeededEvents[2]}]

\* The row of the page names the event: one of the event's candidate keys is
\* a key the row would be stored under
RowNamesEvent(raw_name, event) ==
    \E c \in DOMAIN CandidateKeys(event) :
        CandidateKeys(event)[c]
            \in {RemoveParenGroups(raw_name),
                 normalize_event_name(RemoveParenGroups(raw_name))}

\* scrape_york_accommodations on a page of the one row (parse_date_range on
\* the date cell, lines 265-270), then lines 1163-1229 for the event with
\* the other dictionaries empty
ClassifyAlone ==
    /\ call.fn = "update_event_dates.classify"
    /\ ~call.done
    /\ LET Classified(hit, parsed) ==
               [parsed |-> parsed, hit |-> hit, outcome |-> Outcome(hit)]
           LookedUp(arg, parsed) ==
               At2(Classified,
                   Lookup(CandidateKeys(arg.event),
                          [s \in 1..NumSources |->
                              IF s = 1
                              THEN scrape(1, Page(<<[raw_name |-> arg.raw_name,
                                                     start_dt |-> parsed[1],
                                                     end_dt |-> parsed[2]]>>))
                              ELSE EmptyDict]),
                   parsed)
       IN  call' = [call EXCEPT
                       !.done = TRUE,
                       !.res = At2(LookedUp, call.arg, parse_date_range(call.arg.raw_date_str))]
    /\ UNCHANGED <<events, duOnly, scrOnly, gem>>

\* C21: when the row that names an event has a date text that no rule of
\* parse_date_range reads, the loop records the event as parse-failed, not
\* as not-found and not as updated.
C21_UnreadableDateIsParseFailed ==
    (/\ Returned("update_event_dates.classify")
     /\ RowNamesEvent(call.arg.raw_name, call.arg.event)
     /\ call.res.parsed = <<None, None>>)
        => call.res.outcome = "parse_failed"

(***************************************************************************)
(* EventDefinitions.get_event_category called alone                        *)
(***************************************************************************)
\* An alias, a misspelling of an alias, misspellings of names that have no
\* alias, a name the tables do not know, and every name of every category
CategoryInputs ==
    {Diwali,
     <<"d","e","e","p","a","v","a","l","i">>,
     Diwalli,
     <<"H","o","l","i">>,
     <<"V","a","i","s","a","k","h","i">>,
     <<"L","o","h","r","i">>,
     <<"C","a","n","a","d","a"," ","D","a","y">>,
     <<"C","a","n","a","d","a"," ","D","a","y","y">>,
     <<"L","a","b","o","u","r"," ","D","a","y","y">>,
     Halloween}
    \cup UNION {Range(EVENTS_BY_CATEGORY[c].events) : c \in DOMAIN EVENTS_BY_CATEGORY}

GetEventCategory ==
    /\ call.fn = "get_event_category"
    /\ ~call.done
    /\ call' = [call EXCEPT
                   !.done = TRUE,
                   !.res = [normalized_name |-> EventDefinitions_normalize_event_name(call.arg),
                            category |-> get_event_category(call.arg)]]
    /\ UNCHANGED <<events, duOnly, scrOnly, gem>>

\* The categories whose event list contains the name exactly
CategoriesHolding(name) ==
    {EVENTS_BY_CATEGORY[c].category :
        c \in {d \in DOMAIN EVENTS_BY_CATEGORY : name \in Range(EVENTS_BY_CATEGORY[d].events)}}

\* C27: whenever some category's event list contains the alias-resolved name
\* exactly, get_event_category returns a category that contains it exactly;
\* a category that does not contain the name (one found by a ratio above 85)
\* is returned only when no category contains the name exactly.
C27_ExactCategoryWins ==
    Returned("get_event_category") =>
        /\ CategoriesHolding(call.res.normalized_name) # {} =>
              call.res.category \in CategoriesHolding(call.res.normalized_name)
        /\ (call.res.category # NoCategory
            /\ call.res.category \notin CategoriesHolding(call.res.normalized_name)) =>
              CategoriesHolding(call.res.normalized_name) = {}

\* "Lohri", a name of the fifth category, got that category after the four
\* before it had been tried, and "deepavali" got the category of "Diwali"
C27_Witness ==
    /\ Returned("get_event_category")
    /\ \/ /\ call.arg = <<"L","o","h","r","i">>
          /\ call.res = [normalized_name |-> <<"L","o","h","r","i">>, category |-> "Sikhism"]
       \/ /\ call.arg = <<"d","e","e","p","a","v","a","l","i">>
          /\ call.res = [normalized_name |-> Diwali, category |-> "Hinduism"]

(***************************************************************************)
(* GeminiDateUpdater.py: update_missing_dates                              *)
(***************************************************************************)
GEMINI_SOURCE == "selenium_gemini_search"

\* str.replace(key, value)
RECURSIVE Replace(_, _, _)
Replace(s, key, value) ==
    IF s = <<>> THEN <<>>
    ELSE IF StartsWith(s, key) THEN value \o Replace(SubSeq(s, Len(key) + 1, Len(s)), key, value)
    ELSE <<Head(s)>> \o Replace(Tail(s), key, value)

\* re.sub(r'\s+', ' ', name)
RECURSIVE CollapseSpaces(_)
CollapseSpaces(s) ==
    IF s = <<>> THEN <<>>
    ELSE IF IsSpaceChar(Head(s))
    THEN <<" ">> \o CollapseSpaces(SubSeq(s, Skip(s, 1, Spaces), Len(s)))
    ELSE <<Head(s)>> \o CollapseSpaces(Tail(s))

\* GeminiDateUpdater.normalize_event_name: strip, lower-case, the synonyms
\* replaced, every character but a-z, 0-9 and white space removed (a letter
\* with a diacritic goes as a whole), runs of white space made one space
gemini_normalize_event_name(name) ==
    LET replaced == Replace(Replace(lower(strip(name)), <<"n","y","e">>, <<"n","e","w"," ","y","e","a","r","'","s"," ","e","v","e">>),
                            <<"v","a","l","e","n","t","i","n","e","'","s">>, <<"v","a","l","e","n","t","i","n","e","s"," ","d","a","y">>)
    IN  CollapseSpaces(SelectSeq(replaced,
            LAMBDA c : c \in Range(LowerChars) \cup Digits \cup Spaces))

\* A date string the model did not write as a date
Unparseable == -1

\* The values of "start_date" and of "end_date" in the JSON of a reply: null,
\* dates of 2025, a date of another year and a text that is no date
GeminiValues == {None, MkDate(2025, 3, 1), MkDate(2025, 3, 5), MkDate(2024, 3, 1), Unparseable}

GeminiReplies == [start_date : GeminiValues, end_date : GeminiValues]

NoDates == [start_date |-> None, end_date |-> None]

\* get_dates_from_gemini, from the parsed JSON on (lines 315-354): both
\* dates must parse, be in order and be of 2025, else neither is returned;
\* a date given alone is returned if it parses and is of 2025
get_dates_from_gemini(dates) ==
    IF dates.start_date # None /\ dates.end_date # None
    THEN IF \/ dates.start_date = Unparseable
            \/ dates.end_date = Unparseable
            \/ dates.end_date < dates.start_date
            \/ YearOf(dates.start_date) # 2025
            \/ YearOf(dates.end_date) # 2025
         THEN NoDates
         ELSE dates
    ELSE IF dates.start_date # None
    THEN IF dates.start_date = Unparseable \/ YearOf(dates.start_date) # 2025
         THEN [dates EXCEPT !.start_date = None]
         ELSE dates
    ELSE IF dates.end_date # None
    THEN IF dates.end_date = Unparseable \/ YearOf(dates.end_date) # 2025
         THEN [dates EXCEPT !.end_date = None]
         ELSE dates
    ELSE dates

\* The document lacks both dates
missing_both_dates(doc) == doc.start_date = None /\ doc.end_date = None

\* missing_dates_query: {"$or": [start_date missing or null, end_date
\* missing or null]}
missing_dates_query(doc) == doc.start_date = None \/ doc.end_date = None

\* update_one(..., {"$set": update_dict, ...}): last_updated always,
\* start_date and end_date each only when the reply has it
update_dict(doc, dates, now) ==
    [doc EXCEPT !.last_updated = now,
                !.start_date = IF dates.start_date # None THEN dates.start_date ELSE @,
                !.end_date = IF dates.end_date # None THEN dates.end_date ELSE @]

NoGemini == [pc |-> "off", missing_events |-> <<>>, i |-> 1,
             results |-> [total_attempted |-> 0, successfully_updated |-> 0,
                          failed_attempts |-> 0],
             run |-> 1, rejected |-> 0, before |-> <<>>, counted |-> {}]

\* update_missing_dates up to the loop: the query; without a result the
\* function returns.  before and counted are history: the collection as the
\* query saw it, and the events counted as successfully updated.
GeminiStart ==
    /\ gem.pc = "start"
    /\ LET missing_events == SelectSeq([id \in DOMAIN events |-> id],
                                       LAMBDA id : missing_dates_query(events[id]))
       IN  gem' = [gem EXCEPT
                      !.pc = IF missing_events = <<>> THEN "done" ELSE "loop",
                      !.missing_events = missing_events,
                      !.i = 1,
                      !.results = [total_attempted |-> Len(missing_events),
                                   successfully_updated |-> 0, failed_attempts |-> 0],
                      !.before = events,
                      !.counted = {}]
    /\ UNCHANGED <<events, duOnly, scrOnly, call>>

\* One iteration of "for event in missing_events".  found: the search gave
\* a text; reply: the JSON of the model; reject: the server rejects the
\* update_one.
GeminiStep(found, reply, reject) ==
    /\ gem.pc = "loop"
    /\ gem.i <= Len(gem.missing_events)
    /\ reject => gem.rejected < MaxRejects
    /\ LET id == gem.missing_events[gem.i]
           event_name == gemini_normalize_event_name(gem.before[id].name)
           dates == get_dates_from_gemini(reply)
           failed == [gem EXCEPT !.i = @ + 1, !.results.failed_attempts = @ + 1]
       IN  IF event_name = <<>> \/ ~found
           THEN /\ ~reject
                /\ reply = NoDates
                /\ gem' = failed
                /\ UNCHANGED events
           ELSE IF dates.start_date # None \/ dates.end_date # None
           THEN IF reject
                THEN /\ gem' = [failed EXCEPT !.rejected = @ + 1]
                     /\ UNCHANGED events
                ELSE /\ events' = [events EXCEPT ![id] =
                                      [update_dict(@, dates, gem.run) EXCEPT
                                          !.source_urls = AddToSet(@, GEMINI_SOURCE)]]
                     /\ gem' = [gem EXCEPT !.i = @ + 1,
                                           !.results.successfully_updated = @ + 1,
                                           !.counted = @ \cup {id}]
           ELSE /\ ~reject
                /\ gem' = failed
                /\ UNCHANGED events
    /\ UNCHANGED <<duOnly, scrOnly, call>>

\* After the loop: the driver is closed, the results are logged and returned
GeminiFinish ==
    /\ gem.pc = "loop"
    /\ gem.i > Len(gem.missing_events)
    /\ gem' = [gem EXCEPT !.pc = "done"]
    /\ UNCHANGED <<events, duOnly, scrOnly, call>>

\* The script is run again
GeminiRerun ==
    /\ gem.pc = "done"
    /\ gem.run < MaxRuns
    /\ gem' = [gem EXCEPT !.pc = "start", !.run = @ + 1]
    /\ UNCHANGED <<events, duOnly, scrOnly, call>>

GemNext ==
    \/ GeminiStart
    \/ \E found \in BOOLEAN : \E reply \in GeminiReplies : \E reject \in BOOLEAN :
          GeminiStep(found, reply, reject)
    \/ GeminiFinish
    \/ GeminiRerun

\* The collections update_missing_dates may find: every seeded event either
\* without dates or with the interval update_event_dates wrote
GeminiCollections ==
    {[id \in DOMAIN SeededEvents |->
         IF id \in dated
         THEN [SeededEvents[id] EXCEPT !.start_date = MkDate(2025, 10, 20),
                                      !.end_date = MkDate(2025, 10, 21),
                                      !.last_updated = 1,
                                      !.source_urls = <<YORK_URL>>]
         ELSE SeededEvents[id]] : dated \in SUBSET DOMAIN SeededEvents}

\* C28: update_missing_dates updates only events that are missing both
\* start_date and end_date: an event that already has one of the two dates
\* is neither selected nor modified.
C28_OnlyEventsMissingBothDates ==
    gem.pc \in {"loop", "done"} =>
        \A id \in DOMAIN gem.before :
            ~missing_both_dates(gem.before[id]) =>
                /\ id \notin Range(gem.missing_events)
                /\ events[id] = gem.before[id]

\* C29: every event counted as successfully updated has both start_date and
\* end_date set, with start_date <= end_date; for an event that had neither,
\* only one of the two is never persisted.
C29_CountedEventsHaveBothDates ==
    /\ \A id \in gem.counted :
          /\ events[id].start_date # None
          /\ events[id].end_date # None
          /\ events[id].start_date <= events[id].end_date
    /\ gem.pc \in {"loop", "done"} =>
          \A id \in DOMAIN gem.before :
              missing_both_dates(gem.before[id]) =>
                  (events[id].start_date = None <=> events[id].end_date = None)

(***************************************************************************)
(* The programs                                                        *)
(***************************************************************************)
\* update_event_dates starts on the seeded collection; scraper.py is not run
DUInit ==
    /\ events = SeededEvents
    /\ web \in Webs
    /\ dicts = [s \in 1..NumSources |-> EmptyDict]
    /\ pc = "scrape"
    /\ src_i = 1
    /\ ev_i = 1
    /\ stats = ZeroStats
    /\ not_found_events = <<>>
    /\ remaining = <<>>
    /\ api_i = 1
    /\ results = ZeroResults
    /\ calendarific_updated_events = {}
    /\ events_for_apininjas = <<>>
    /\ run = 1
    /\ rejected = 0
    /\ changes = 0
    /\ used = [i \in DOMAIN SeededEvents |-> NoHit]
    /\ fetch_ok = [s \in 1..NumSources |-> TRUE]
    /\ fetches = [s \in 1..NumSources |-> 0]
    /\ failed_writes = {}
    /\ after_first = <<>>
    /\ task = [u \in DOMAIN ScrapeUrls |-> IdleTask]
    /\ scrape_history = <<>>
    /\ merged = <<>>
    /\ tick = 0
    /\ call = NoCall
    /\ gem = NoGemini

\* scrape_events starts on an empty collection; DateUpdate.py is not run
ScrInit ==
    /\ events = <<>>
    /\ task = [u \in DOMAIN ScrapeUrls |-> IdleTask]
    /\ scrape_history = <<>>
    /\ merged = <<>>
    /\ tick = 0
    /\ web = [pages |-> <<FailedPage, FailedPage, FailedPage, FailedPage, FailedPage,
                          FailedPage>>,
              calendarific |-> ApiDown, apininjas |-> ApiDown]
    /\ dicts = [s \in 1..NumSources |-> EmptyDict]
    /\ pc = "done"
    /\ src_i = 1
    /\ ev_i = 1
    /\ stats = ZeroStats
    /\ not_found_events = <<>>
    /\ remaining = <<>>
    /\ api_i = 1
    /\ results = ZeroResults
    /\ calendarific_updated_events = {}
    /\ events_for_apininjas = <<>>
    /\ run = MaxRuns
    /\ rejected = 0
    /\ changes = 0
    /\ used = <<>>
    /\ fetch_ok = [s \in 1..NumSources |-> TRUE]
    /\ fetches = [s \in 1..NumSources |-> 0]
    /\ failed_writes = {}
    /\ after_first = <<>>
    /\ call = NoCall
    /\ gem = NoGemini

SpecDU == DUInit /\ [][DUNext]_vars

SpecScr == ScrInit /\ [][ScrNext]_vars

\* The calls checked: each function on each of its inputs
Calls ==
    {NewCall("parse_date_range", t) : t \in DateTexts}
    \cup {NewCall("get_nth_weekday", a) : a \in NthInputs}
    \cup {NewCall("parse_nth_weekday_pattern", t) : t \in NthTexts}
    \cup {NewCall("month_long", a) : a \in MonthLongInputs}
    \cup {NewCall("lookup", a) : a \in LookupInputs}
    \cup {NewCall("EventDefinitions.normalize_event_name", n) : n \in AliasInputs}
    \cup {NewCall("normalize_event_name", a) : a \in AnnotatedNames}
    \cup {NewCall("update_event_dates.classify", a) : a \in ClassifyInputs}
    \cup {NewCall("canada_item", a) : a \in NthItems \cup TextItems}
    \cup {NewCall("ontario_item", a) : a \in TextItems}

\* A function taken alone starts on one of its inputs; neither program runs
FnInit ==
    /\ call \in Calls
    /\ events = <<>>
    /\ task = [u \in DOMAIN ScrapeUrls |-> IdleTask]
    /\ scrape_history = <<>>
    /\ merged = <<>>
    /\ tick = 0
    /\ web = [pages |-> <<FailedPage, FailedPage, FailedPage, FailedPage, FailedPage,
                          FailedPage>>,
              calendarific |-> ApiDown, apininjas |-> ApiDown]
    /\ dicts = [s \in 1..NumSources |-> EmptyDict]
    /\ pc = "done"
    /\ src_i = 1
    /\ ev_i = 1
    /\ stats = ZeroStats
    /\ not_found_events = <<>>
    /\ remaining = <<>>
    /\ api_i = 1
    /\ results = ZeroResults
    /\ calendarific_updated_events = {}
    /\ events_for_apininjas = <<>>
    /\ run = MaxRuns
    /\ rejected = 0
    /\ changes = 0
    /\ used = <<>>
    /\ fetch_ok = [s \in 1..NumSources |-> TRUE]
    /\ fetches = [s \in 1..NumSources |-> 0]
    /\ failed_writes = {}
    /\ after_first = <<>>
    /\ gem = NoGemini

FnNext ==
    \/ ParseDateRange
    \/ GetNthWeekday
    \/ ParseNthWeekdayPattern
    \/ MonthLong
    \/ LookupAlone
    \/ AliasResolver
    \/ NormalizeEventName
    \/ ClassifyAlone
    \/ CanadaItem
    \/ OntarioItem

SpecFn == FnInit /\ [][FnNext]_vars

\* get_event_category taken alone, on the names of CategoryInputs
CatInit ==
    /\ call \in {NewCall("get_event_category", n) : n \in CategoryInputs}
    /\ events = <<>>
    /\ task = [u \in DOMAIN ScrapeUrls |-> IdleTask]
    /\ scrape_history = <<>>
    /\ merged = <<>>
    /\ tick = 0
    /\ web = [pages |-> <<FailedPage, FailedPage, FailedPage, FailedPage, FailedPage,
                          FailedPage>>,
              calendarific |-> ApiDown, apininjas |-> ApiDown]
    /\ dicts = [s \in 1..NumSources |-> EmptyDict]
    /\ pc = "done"
    /\ src_i = 1
    /\ ev_i = 1
    /\ stats = ZeroStats
    /\ not_found_events = <<>>
    /\ remaining = <<>>
    /\ api_i = 1
    /\ results = ZeroResults
    /\ calendarific_updated_events = {}
    /\ events_for_apininjas = <<>>
    /\ run = MaxRuns
    /\ rejected = 0
    /\ changes = 0
    /\ used = <<>>
    /\ fetch_ok = [s \in 1..NumSources |-> TRUE]
    /\ fetches = [s \in 1..NumSources |-> 0]
    /\ failed_writes = {}
    /\ after_first = <<>>
    /\ gem = NoGemini

CatNext == GetEventCategory

SpecCat == CatInit /\ [][CatNext]_vars

\* update_missing_dates starts on a collection as the seeding or
\* update_event_dates left it: each event without dates or with both
GemInit ==
    /\ call = NoCall
    /\ events \in GeminiCollections
    /\ task = [u \in DOMAIN ScrapeUrls |-> IdleTask]
    /\ scrape_history = <<>>
    /\ merged = <<>>
    /\ tick = 0
    /\ web = [pages |-> <<FailedPage, FailedPage, FailedPage, FailedPage, FailedPage,
                          FailedPage>>,
              calendarific |-> ApiDown, apininjas |-> ApiDown]
    /\ dicts = [s \in 1..NumSources |-> EmptyDict]
    /\ pc = "done"
    /\ src_i = 1
    /\ ev_i = 1
    /\ stats = ZeroStats
    /\ not_found_events = <<>>
    /\ remaining = <<>>
    /\ api_i = 1
    /\ results = ZeroResults
    /\ calendarific_updated_events = {}
    /\ events_for_apininjas = <<>>
    /\ run = MaxRuns
    /\ rejected = 0
    /\ changes = 0
    /\ used = <<>>
    /\ fetch_ok = [s \in 1..NumSources |-> TRUE]
    /\ fetches = [s \in 1..NumSources |-> 0]
    /\ failed_writes = {}
    /\ after_first = <<>>
    /\ gem = [NoGemini EXCEPT !.pc = "start"]

SpecGem == GemInit /\ [][GemNext]_vars

====
